---------------------------- MODULE Spec2Model ----------------------------
(***************************************************************************)
(* A model of the i18n registration / resolution engine                    *)
(* (src/src/base.ts, with the helpers of utils.ts and the EventEmitter of  *)
(* events.ts).                                                             *)
(*                                                                         *)
(* Strings.  A namespace, a key or a full key is a JavaScript string that  *)
(* the code only ever inspects through '.'-separated segments.  A string   *)
(* is represented here by the image of String.split('.'): a non-empty      *)
(* sequence of dot-free segments, a segment possibly being the empty       *)
(* string.  The representation is one-to-one:                              *)
(*     'a.b' = <<"a","b">>    '' = <<"">>    '.a' = <<"","a">>             *)
(*     'a..b' = <<"a","","b">>                                             *)
(* so `${x}.${y}` is x \o y.  null is the empty sequence <<>>.             *)
(*                                                                         *)
(* Values.  A stored value (TValue) is a string; "" is the only falsy one. *)
(***************************************************************************)
EXTENDS Naturals, Sequences, FiniteSets, TLC

Null == <<>>
Undefined == "undefined"
DefaultValue == "__DEV_ERROR__"

Range(f) == {f[i] : i \in DOMAIN f}

(***************************************************************************)
(* utils.ts                                                                *)
(***************************************************************************)
concatNamespaceWithKey(namespace, key) ==
  IF namespace = Null \/ namespace = <<"">> THEN key ELSE namespace \o key

\* splitKeyByNamespace with the suffix sliced one segment too early.
splitKeyOverlapping(fullKey) ==
  [i \in 1..(Len(fullKey) - 1) |->
     <<SubSeq(fullKey, 1, i), SubSeq(fullKey, i, Len(fullKey))>>]

splitKeyByNamespace(fullKey) ==
  [i \in 1..(Len(fullKey) - 1) |->
     <<SubSeq(fullKey, 1, i), SubSeq(fullKey, i + 1, Len(fullKey))>>]

splitKeyIntoParts(fullKey) ==
  [i \in 1..Len(fullKey) |-> SubSeq(fullKey, 1, i)]

\* testNamespacePath that only refuses null.
testNamespacePathLoose(name) == name # Null

testNamespacePath(name) ==
  /\ name # Null
  /\ \A i \in 1..Len(name) : name[i] # ""

(***************************************************************************)
(* errors.ts: the structured part {code, namespace, key} of a TErrorDetail *)
(* (the message text is not modelled).                                     *)
(***************************************************************************)
UnregisteredLocaleError(locale) ==
  [code |-> "UnregisteredLocaleError", namespace |-> Null, key |-> <<locale>>]
NamespaceError(namespace) ==
  [code |-> "NamespaceError", namespace |-> namespace, key |-> <<"">>]
KeyError(namespace, key) ==
  [code |-> "KeyError", namespace |-> namespace, key |-> key]
IntersectionNsError(namespace) ==
  [code |-> "IntersectionNsError", namespace |-> namespace, key |-> <<"">>]
IntersectionError(namespace, key) ==
  [code |-> "IntersectionError", namespace |-> namespace, key |-> key]
CircularDependencyError(namespace, key) ==
  [code |-> "CircularDependencyError", namespace |-> namespace, key |-> key]
UnregisteredKeyError(namespace, key) ==
  [code |-> "UnregisteredKeyError", namespace |-> namespace, key |-> key]

Codes(errors) == {errors[i].code : i \in DOMAIN errors}

(***************************************************************************)
(* The state of one SharedSingleton with its registries.                   *)
(*   namespaces         _namespaces: full namespace -> {registry, i18n};   *)
(*                      i18n is the identity of the facade object, 0 for   *)
(*                      null                                               *)
(*   facades            the facade objects _nsFactory has made, each by    *)
(*                      its namespace; the n-th has identity n, the root   *)
(*                      is the first                                       *)
(*   keyValue           I18nRegistry._keyValue of every registry, keyed by *)
(*                      <<registry namespace, local key>>                  *)
(*   externalListeners  I18nRegistry._externalListeners, same keys         *)
(*   keyEmitters        EventEmitter._namespace: scope -> listener list    *)
(*   listenersOnce      Emitter._listenersOnce of the same scopes          *)
(*   localeListeners, localeListenersOnce   the Emitter _locale            *)
(*   cache, errorKeys   _cache, _errorKeys                                 *)
(*   locale             _locale                                            *)
(*   defaultLocale, locales   the parsed configuration                     *)
(*   last               the call that has just returned: its arguments,    *)
(*                      return value, the records handed to errorHandle    *)
(*                      and the emitKey/emitLocale calls made; op = "idle" *)
(*                      between calls; calls lists the invocations of      *)
(*                      subscribed listeners, reads what the listeners     *)
(*                      that call getValue were returned                   *)
(*   nops               number of committed set/use calls (model bound)    *)
(***************************************************************************)
VARIABLES namespaces, keyValue, externalListeners, keyEmitters,
          listenersOnce, localeListeners, localeListenersOnce,
          cache, errorKeys, locale, facades, defaultLocale, locales, last, nops

core == <<namespaces, keyValue, externalListeners, keyEmitters,
          listenersOnce, localeListeners, localeListenersOnce,
          cache, errorKeys, locale, facades>>
vars == <<namespaces, keyValue, externalListeners, keyEmitters,
          listenersOnce, localeListeners, localeListenersOnce,
          cache, errorKeys, locale, facades, defaultLocale, locales, last, nops>>

\* The mutable state as one record, threaded through the operations below.
\* errors / events collect what one call reports; overflow is set when the
\* propagation of key changes does not end.
State ==
  [namespaces |-> namespaces, keyValue |-> keyValue,
   externalListeners |-> externalListeners, keyEmitters |-> keyEmitters,
   listenersOnce |-> listenersOnce, localeListeners |-> localeListeners,
   localeListenersOnce |-> localeListenersOnce,
   cache |-> cache, errorKeys |-> errorKeys, locale |-> locale,
   facades |-> facades, defaultLocale |-> defaultLocale, locales |-> locales,
   errors |-> <<>>, events |-> <<>>, calls |-> <<>>, reads |-> <<>>,
   overflow |-> FALSE, ret |-> Null]

errorHandle(s, error) == [s EXCEPT !.errors = Append(@, error)]

hasRegistry(s, ns) ==
  ns \in DOMAIN s.namespaces /\ s.namespaces[ns].registry

\* A key entry { t: Map<locale, value> } or { t: null, k: externalFullKey }.
\* The Map is its insertion-ordered list of [locale, value] pairs; a Direct
\* entry is created with one pair and never emptied, so t = <<>> stands for
\* t: null.
DirectEntry(t) == [t |-> t, k |-> Null]
BorrowEntry(k) == [t |-> <<>>, k |-> k]

mapGet(t, l) ==
  IF \E i \in DOMAIN t : t[i].locale = l
  THEN (CHOOSE p \in Range(t) : p.locale = l).value
  ELSE Undefined

mapSet(t, l, v) ==
  IF \E i \in DOMAIN t : t[i].locale = l
  THEN [i \in DOMAIN t |-> IF t[i].locale = l THEN [locale |-> l, value |-> v] ELSE t[i]]
  ELSE Append(t, [locale |-> l, value |-> v])

mapFirstValue(t) == IF t = <<>> THEN Undefined ELSE t[1].value

Truthy(v) == v # Undefined /\ v # ""


(***************************************************************************)
(* Resolution: SharedSingleton.findValue and I18nRegistry[getValue].       *)
(* A visit context is [namespace, key, visited, error] and, here, the      *)
(* errors reported to errorHandle during the search.  The result is        *)
(* [found, value, registry, ctx]; found = FALSE stands for null.           *)
(***************************************************************************)
VisitedI18n(namespace, key, visited) ==
  [namespace |-> namespace, key |-> key, visited |-> visited,
   error |-> FALSE, errors |-> <<>>]

NotFound(ctx) ==
  [found |-> FALSE, value |-> Undefined, registry |-> Null, ctx |-> ctx]

\* found.t.get(locale) ?? (locale !== defaultLocale ? found.t.get(defaultLocale) : null)
\*   ?? found.t.values().next().value
selectValue(s, t, loc) ==
  IF mapGet(t, loc) # Undefined THEN mapGet(t, loc)
  ELSE IF loc # s.defaultLocale /\ mapGet(t, s.defaultLocale) # Undefined
       THEN mapGet(t, s.defaultLocale)
       ELSE mapFirstValue(t)

RECURSIVE findValueFrom(_, _, _, _, _)
RECURSIVE registryGetValue(_, _, _, _, _)

\* A loop of findValue that pushes the key of a visited candidate once more
\* before skipping it; C33_SearchTerminates tells it from findValueFrom.
findValueFromPushesAgain(s, loc, name2Key, i, ctx) ==
  IF i > Len(name2Key) THEN NotFound(ctx)
  ELSE
    LET ns == name2Key[i][1]
        localKey == name2Key[i][2]
    IN
    IF ~hasRegistry(s, ns) THEN findValueFrom(s, loc, name2Key, i + 1, ctx)
    ELSE IF ns \in DOMAIN ctx.visited /\ localKey \in Range(ctx.visited[ns])
    THEN findValueFrom(s, loc, name2Key, i + 1,
           [ctx EXCEPT !.error = TRUE,
                       !.visited[ns] = Append(@, localKey),
                       !.errors = Append(@, CircularDependencyError(ctx.namespace, ctx.key))])
    ELSE
      LET seen == IF ns \in DOMAIN ctx.visited
                  THEN [ctx.visited EXCEPT ![ns] = Append(@, localKey)]
                  ELSE [n \in DOMAIN ctx.visited \cup {ns} |->
                          IF n = ns THEN <<localKey>> ELSE ctx.visited[n]]
          value == registryGetValue(s, ns, loc, localKey, [ctx EXCEPT !.visited = seen])
      IN IF value.found THEN value
         ELSE findValueFrom(s, loc, name2Key, i + 1, value.ctx)

\* The body of findValue's loop from candidate i on.
findValueFrom(s, loc, name2Key, i, ctx) ==
  IF i > Len(name2Key) THEN NotFound(ctx)
  ELSE
    LET ns == name2Key[i][1]
        localKey == name2Key[i][2]
    IN
    IF ~hasRegistry(s, ns) THEN findValueFrom(s, loc, name2Key, i + 1, ctx)
    ELSE IF ns \in DOMAIN ctx.visited /\ localKey \in Range(ctx.visited[ns])
    THEN findValueFrom(s, loc, name2Key, i + 1,
           [ctx EXCEPT !.error = TRUE,
                       !.errors = Append(@, CircularDependencyError(ctx.namespace, ctx.key))])
    ELSE
      LET seen == IF ns \in DOMAIN ctx.visited
                  THEN [ctx.visited EXCEPT ![ns] = Append(@, localKey)]
                  ELSE [n \in DOMAIN ctx.visited \cup {ns} |->
                          IF n = ns THEN <<localKey>> ELSE ctx.visited[n]]
          value == registryGetValue(s, ns, loc, localKey, [ctx EXCEPT !.visited = seen])
      IN IF value.found THEN value
         ELSE findValueFrom(s, loc, name2Key, i + 1, value.ctx)

\* A findValue that tries the longest namespace first;
\* C31_ShortestFirst tells it from findValue.
findValueLongestFirst(s, loc, fullKey, visitedI18n) ==
  LET name2Key == splitKeyByNamespace(fullKey) IN
  findValueFrom(s, loc, [i \in DOMAIN name2Key |-> name2Key[Len(name2Key) + 1 - i]],
                1, visitedI18n)

findValue(s, loc, fullKey, visitedI18n) ==
  findValueFrom(s, loc, splitKeyByNamespace(fullKey), 1, visitedI18n)

registryGetValue(s, registry, loc, localKey, visitedI18n) ==
  IF <<registry, localKey>> \notin DOMAIN s.keyValue THEN NotFound(visitedI18n)
  ELSE
    LET found == s.keyValue[<<registry, localKey>>] IN
    IF found.t # <<>>
    THEN LET value == selectValue(s, found.t, loc) IN
         IF Truthy(value)
         THEN [found |-> TRUE, value |-> value, registry |-> registry, ctx |-> visitedI18n]
         ELSE NotFound(visitedI18n)
    ELSE findValue(s, loc, found.k, visitedI18n)

\* A _handleKey that stores in the cache what the key has under the default
\* locale; C3_GetValueRepeats tells it from handleKey.
handleKeyCacheDefault(s, fullKey, namespace, key) ==
  IF fullKey \in s.errorKeys THEN [s EXCEPT !.ret = DefaultValue]
  ELSE
    LET value == findValue(s, s.locale, fullKey, VisitedI18n(namespace, key, <<>>))
        other == findValue(s, s.defaultLocale, fullKey, VisitedI18n(namespace, key, <<>>))
        s1 == [s EXCEPT !.errors = @ \o value.ctx.errors]
    IN
    IF value.found
    THEN [s1 EXCEPT !.cache = [k \in DOMAIN @ \cup {fullKey} |->
                                 IF k = fullKey THEN other.value ELSE @[k]],
                    !.ret = value.value]
    ELSE
      LET s2 == IF ~value.ctx.error
                THEN errorHandle(s1, UnregisteredKeyError(namespace, key))
                ELSE s1
      IN [s2 EXCEPT !.errorKeys = @ \cup {fullKey}, !.ret = DefaultValue]

\* A _handleKey that does not record the key it failed to find;
\* C4_UnresolvedReportedOnce tells it from handleKey.
handleKeyNoRecord(s, fullKey, namespace, key) ==
  IF fullKey \in s.errorKeys THEN [s EXCEPT !.ret = DefaultValue]
  ELSE
    LET value == findValue(s, s.locale, fullKey, VisitedI18n(namespace, key, <<>>))
        s1 == [s EXCEPT !.errors = @ \o value.ctx.errors]
    IN
    IF value.found
    THEN [s1 EXCEPT !.cache = [k \in DOMAIN @ \cup {fullKey} |->
                                 IF k = fullKey THEN value.value ELSE @[k]],
                    !.ret = value.value]
    ELSE
      LET s2 == IF ~value.ctx.error
                THEN errorHandle(s1, UnregisteredKeyError(namespace, key))
                ELSE s1
      IN [s2 EXCEPT !.ret = DefaultValue]

\* A _handleKey that reports UnregisteredKey whenever the search fails;
\* C25_UnresolvedReport tells it from handleKey.
handleKeyAlwaysReports(s, fullKey, namespace, key) ==
  IF fullKey \in s.errorKeys THEN [s EXCEPT !.ret = DefaultValue]
  ELSE
    LET value == findValue(s, s.locale, fullKey, VisitedI18n(namespace, key, <<>>))
        s1 == [s EXCEPT !.errors = @ \o value.ctx.errors]
    IN
    IF value.found
    THEN [s1 EXCEPT !.cache = [k \in DOMAIN @ \cup {fullKey} |->
                                 IF k = fullKey THEN value.value ELSE @[k]],
                    !.ret = value.value]
    ELSE [errorHandle(s1, UnregisteredKeyError(namespace, key))
            EXCEPT !.errorKeys = @ \cup {fullKey}, !.ret = DefaultValue]

\* A _handleKey for which a reported cycle is fatal: the value found is
\* dropped; C32_CycleNotFatal tells it from handleKey.
handleKeyCycleFatal(s, fullKey, namespace, key) ==
  IF fullKey \in s.errorKeys THEN [s EXCEPT !.ret = DefaultValue]
  ELSE
    LET value == findValue(s, s.locale, fullKey, VisitedI18n(namespace, key, <<>>))
        s1 == [s EXCEPT !.errors = @ \o value.ctx.errors]
    IN
    IF value.found /\ ~value.ctx.error
    THEN [s1 EXCEPT !.cache = [k \in DOMAIN @ \cup {fullKey} |->
                                 IF k = fullKey THEN value.value ELSE @[k]],
                    !.ret = value.value]
    ELSE
      LET s2 == IF ~value.ctx.error
                THEN errorHandle(s1, UnregisteredKeyError(namespace, key))
                ELSE s1
      IN [s2 EXCEPT !.errorKeys = @ \cup {fullKey}, !.ret = DefaultValue]

\* A _handleKey that also stores the default in the cache when it finds no
\* value; C39_CacheUnresolvedDisjoint tells it from handleKey.
handleKeyCachesMiss(s, fullKey, namespace, key) ==
  IF fullKey \in s.errorKeys THEN [s EXCEPT !.ret = DefaultValue]
  ELSE
    LET value == findValue(s, s.locale, fullKey, VisitedI18n(namespace, key, <<>>))
        s1 == [s EXCEPT !.errors = @ \o value.ctx.errors,
                        !.cache = [k \in DOMAIN @ \cup {fullKey} |->
                                     IF k # fullKey THEN @[k]
                                     ELSE IF value.found THEN value.value ELSE DefaultValue]]
    IN
    IF value.found THEN [s1 EXCEPT !.ret = value.value]
    ELSE
      LET s2 == IF ~value.ctx.error
                THEN errorHandle(s1, UnregisteredKeyError(namespace, key))
                ELSE s1
      IN [s2 EXCEPT !.errorKeys = @ \cup {fullKey}, !.ret = DefaultValue]

\* _handleKey: the result is the state with field ret set.
handleKey(s, fullKey, namespace, key) ==
  IF fullKey \in s.errorKeys THEN [s EXCEPT !.ret = DefaultValue]
  ELSE
    LET value == findValue(s, s.locale, fullKey, VisitedI18n(namespace, key, <<>>))
        s1 == [s EXCEPT !.errors = @ \o value.ctx.errors]
    IN
    IF value.found
    THEN [s1 EXCEPT !.cache = [k \in DOMAIN @ \cup {fullKey} |->
                                 IF k = fullKey THEN value.value ELSE @[k]],
                    !.ret = value.value]
    ELSE
      LET s2 == IF ~value.ctx.error
                THEN errorHandle(s1, UnregisteredKeyError(namespace, key))
                ELSE s1
      IN [s2 EXCEPT !.errorKeys = @ \cup {fullKey}, !.ret = DefaultValue]

getValue(s, namespace, key) ==
  LET fullKey == concatNamespaceWithKey(namespace, key) IN
  IF fullKey \in DOMAIN s.cache
  THEN [s EXCEPT !.ret = s.cache[fullKey]]
  ELSE handleKey(s, fullKey, namespace, key)

(***************************************************************************)
(* events.ts.  A listener created by _setExternalKey is the closure        *)
(*   (_, value) => { if (value === partKey) shared.changeKey(ns, key) }    *)
(* and is represented by what it captures: [registry, key, partKey].       *)
(* Every such closure is a new object, so Emitter.on always pushes it.     *)
(* A listener passed to I18nRoot.on is represented by its identity fn; it  *)
(* changes nothing, and its invocation is recorded in calls together with  *)
(* the scope of the Emitter that invoked it (Null for all namespaces,      *)
(* LocaleScope for the Emitter _locale).                                   *)
(***************************************************************************)
BorrowListener(registry, key, partKey) ==
  [registry |-> registry, key |-> key, partKey |-> partKey]

UserListener(fn) == [fn |-> fn]

isUserListener(ls) == "fn" \in DOMAIN ls

\* A listener like the ones of the quick start, which reads a translation
\* through the facade of a namespace (null: the root) it has captured:
\*   (name, value) => got = name === 'key' ? facade.t(value) : facade.t(key)
ReadingListener(fn, namespace, key) == [fn |-> fn, t |-> <<namespace, key>>]

isReadingListener(ls) == "t" \in DOMAIN ls

\* A listener that subscribes another listener through a facade:
\*   () => facade.on(name, listener, once)
\* sub is <<facade namespace, name, listener, once>>.
SubscribingListener(fn, namespace, name, listener, once) ==
  [fn |-> fn, sub |-> <<namespace, name, listener, once>>]

isSubscribingListener(ls) == "sub" \in DOMAIN ls

LocaleScope == <<"", "locale">>

\* Emitter.off: removes the first occurrence of the listener.
RemoveFirst(list, x) ==
  IF x \notin Range(list) THEN list
  ELSE LET i == CHOOSE j \in DOMAIN list :
                  list[j] = x /\ \A m \in 1..(j - 1) : list[m] # x
       IN SubSeq(list, 1, i - 1) \o SubSeq(list, i + 1, Len(list))

\* One Emitter: _listeners and _listenersOnce.  _listenersOnce holds no
\* listener twice and is only searched, so it is kept as a set; {} is null.
Emitter(listeners, once) == [listeners |-> listeners, once |-> once]

emitterOn(e, listener, once) ==
  IF listener \notin Range(e.listeners)
  THEN Emitter(Append(e.listeners, listener),
               IF once THEN e.once \cup {listener} ELSE e.once)
  ELSE IF once THEN Emitter(e.listeners, e.once \cup {listener})
       ELSE Emitter(e.listeners, e.once \ {listener})

emitterOff(e, listener) ==
  IF listener \in Range(e.listeners)
  THEN Emitter(RemoveFirst(e.listeners, listener), e.once \ {listener})
  ELSE e

\* An emission that forgets which listeners were one-shot and keeps them
\* subscribed; C23_OneShotDelivery tells it from emitterCopyAndRemoveOnce.
emitterCopyAndKeepOnce(e) == Emitter(e.listeners, {})

\* _emitterCopyAndRemoveOnce: what is left subscribed after an emission.
emitterCopyAndRemoveOnce(e) ==
  Emitter(SelectSeq(e.listeners, LAMBDA ls : ls \notin e.once), {})

\* The Emitter of a scope in EventEmitter._namespace.
emitterOf(s, namespace) ==
  Emitter(s.keyEmitters[namespace], s.listenersOnce[namespace])

setEmitter(s, namespace, e) ==
  [s EXCEPT !.keyEmitters =
              [n \in DOMAIN @ \cup {namespace} |-> IF n = namespace THEN e.listeners ELSE @[n]],
            !.listenersOnce =
              [n \in DOMAIN @ \cup {namespace} |-> IF n = namespace THEN e.once ELSE @[n]]]

onKey(s, namespace, listener, once) ==
  LET ns == IF namespace \in DOMAIN s.keyEmitters
            THEN emitterOf(s, namespace) ELSE Emitter(<<>>, {})
  IN setEmitter(s, namespace, emitterOn(ns, listener, once))

offKey(s, namespace, listener) ==
  IF namespace \in DOMAIN s.keyEmitters
  THEN setEmitter(s, namespace, emitterOff(emitterOf(s, namespace), listener))
  ELSE s

onLocale(s, listener, once) ==
  LET e == emitterOn(Emitter(s.localeListeners, s.localeListenersOnce), listener, once)
  IN [s EXCEPT !.localeListeners = e.listeners, !.localeListenersOnce = e.once]

offLocale(s, listener) ==
  LET e == emitterOff(Emitter(s.localeListeners, s.localeListenersOnce), listener)
  IN [s EXCEPT !.localeListeners = e.listeners, !.localeListenersOnce = e.once]

(***************************************************************************)
(* SharedSingleton.changeKey with EventEmitter.emitKey and Emitter.emit.   *)
(* A borrow listener calls changeKey again; depth counts the nested calls  *)
(* still allowed.  changeKey is entered with one more than the number of   *)
(* borrow listeners, which nested calls exceed only by running the same    *)
(* listener inside itself: then the recursion never returns, and overflow  *)
(* records it.                                                             *)
(***************************************************************************)
RECURSIVE changeKeyAt(_, _, _, _)
RECURSIVE emitFrom(_, _, _, _, _, _, _)
RECURSIVE emitKeyFrom(_, _, _, _)

\* Emitter.emit(name, value) of the Emitter of a scope, over the copied
\* listener list, from index i.
emitFrom(s, scope, listeners, i, name, value, depth) ==
  IF i > Len(listeners) THEN s
  ELSE LET ls == listeners[i]
           called == [s EXCEPT !.calls = Append(@, [listener |-> ls.fn, scope |-> scope,
                                                    name |-> name, value |-> value])]
           key == IF name = "key" THEN value ELSE ls.t[2]
           got == getValue(called, ls.t[1], key)
           s1 == IF isUserListener(ls)
                 THEN IF isReadingListener(ls)
                      THEN [got EXCEPT !.reads = Append(@, [listener |-> ls.fn, name |-> name,
                                                           namespace |-> ls.t[1], key |-> key,
                                                           got |-> got.ret]),
                                       !.ret = s.ret]
                      ELSE IF isSubscribingListener(ls)
                      THEN IF ls.sub[2] = "locale"
                           THEN onLocale(called, ls.sub[3], ls.sub[4])
                           ELSE onKey(called, ls.sub[1], ls.sub[3], ls.sub[4])
                      ELSE called
                 ELSE IF value = ls.partKey
                      THEN changeKeyAt(s, ls.registry, ls.key, depth - 1)
                      ELSE s
       IN emitFrom(s1, scope, listeners, i + 1, name, value, depth)

\* emitKey's loop: scopes is <<null, fullKey>> followed by the affected
\* namespaces; a scope with no Emitter is skipped.  Emitter.emit first
\* copies the listener list and unsubscribes the one-shot listeners.
emitKeyFrom(s, scopes, i, depth) ==
  IF i > Len(scopes) THEN s
  ELSE LET ns == scopes[i][1]
           localKey == scopes[i][2]
           s1 == IF ns \in DOMAIN s.keyEmitters
                 THEN emitFrom(setEmitter(s, ns, emitterCopyAndRemoveOnce(emitterOf(s, ns))),
                               ns, s.keyEmitters[ns], 1, "key", localKey, depth)
                 ELSE s
       IN emitKeyFrom(s1, scopes, i + 1, depth)

\* An emitKey that passes by the namespaces without a registry;
\* C20_KeyListenerScope tells it from emitKey.
emitKeyRegistered(s, namespace, key, depth) ==
  LET fullKey == concatNamespaceWithKey(namespace, key)
      s1 == [s EXCEPT !.events = Append(@, [name |-> "key", namespace |-> namespace, key |-> key])]
  IN emitKeyFrom(s1, <<<<Null, fullKey>>>> \o
                     SelectSeq(splitKeyByNamespace(fullKey), LAMBDA p : hasRegistry(s, p[1])),
                 1, depth)

emitKey(s, namespace, key, depth) ==
  LET fullKey == concatNamespaceWithKey(namespace, key)
      s1 == [s EXCEPT !.events = Append(@, [name |-> "key", namespace |-> namespace, key |-> key])]
  IN emitKeyFrom(s1, <<<<Null, fullKey>>>> \o splitKeyByNamespace(fullKey), 1, depth)

\* A changeKey that only emits; C5_UnresolvedSetSound tells it from
\* changeKeyAt.
changeKeyAtOnlyEmit(s, namespace, key, depth) ==
  IF depth = 0 THEN [s EXCEPT !.overflow = TRUE]
  ELSE emitKey(s, namespace, key, depth)

changeKeyAt(s, namespace, key, depth) ==
  IF depth = 0 THEN [s EXCEPT !.overflow = TRUE]
  ELSE emitKey([s EXCEPT !.errorKeys = @ \ {concatNamespaceWithKey(namespace, key)}],
               namespace, key, depth)

changeKey(s, namespace, key) ==
  changeKeyAt(s, namespace, key, Cardinality(DOMAIN s.externalListeners) + 1)

\* emitLocale: Emitter.emit('locale', locale) of the Emitter _locale; a
\* listener of 'locale' is never a borrow listener.
emitLocale(s, loc) ==
  LET e == Emitter(s.localeListeners, s.localeListenersOnce)
      left == emitterCopyAndRemoveOnce(e)
      s1 == [s EXCEPT !.events = Append(@, [name |-> "locale", namespace |-> Null, key |-> <<loc>>]),
                      !.localeListeners = left.listeners,
                      !.localeListenersOnce = left.once]
  IN emitFrom(s1, LocaleScope, e.listeners, 1, "locale", <<loc>>, 1)

(***************************************************************************)
(* SharedSingleton: changeLocale, register, checkFullKey.                  *)
(***************************************************************************)
isSupportedLocale(s, loc) == s.locales = {} \/ loc \in s.locales

\* A changeLocale without the acceptance test; C18_LocaleChangeRejected tells
\* it from changeLocale.
changeLocaleUnchecked(s, loc) ==
  IF s.locale # loc
  THEN [emitLocale([s EXCEPT !.locale = loc, !.cache = <<>>], loc) EXCEPT !.ret = loc]
  ELSE [s EXCEPT !.ret = s.locale]

\* A changeLocale that keeps the cache; C19_LocaleChangeFrame tells it from
\* changeLocale.
changeLocaleKeepsCache(s, loc) ==
  IF ~isSupportedLocale(s, loc)
  THEN [errorHandle(s, UnregisteredLocaleError(loc)) EXCEPT !.ret = s.locale]
  ELSE IF s.locale # loc
       THEN [emitLocale([s EXCEPT !.locale = loc], loc) EXCEPT !.ret = loc]
       ELSE [s EXCEPT !.ret = s.locale]

changeLocale(s, loc) ==
  IF ~isSupportedLocale(s, loc)
  THEN [errorHandle(s, UnregisteredLocaleError(loc)) EXCEPT !.ret = s.locale]
  ELSE IF s.locale # loc
       THEN [emitLocale([s EXCEPT !.locale = loc, !.cache = <<>>], loc) EXCEPT !.ret = loc]
       ELSE [s EXCEPT !.ret = s.locale]

keysOf(s, registry) == {p[2] : p \in {q \in DOMAIN s.keyValue : q[1] = registry}}

\* I18nRegistry[getKeyIfIntersection]: whether some key is returned (which
\* one only shows in the error message).
getKeyIfIntersection(s, registry, localKey) ==
  \E key \in keysOf(s, registry) : localKey \in Range(splitKeyIntoParts(key))

\* A register without the early return of the existing registry: the factory
\* makes a new, empty Registry for a namespace that had one;
\* C6_RegisterIdempotent tells it from register.
registerAnew(s, fullNamespace) ==
  IF ~testNamespacePath(fullNamespace)
  THEN [errorHandle(s, NamespaceError(fullNamespace)) EXCEPT !.ret = Null]
  ELSE
    LET name2Key == splitKeyByNamespace(fullNamespace) IN
    IF \E i \in DOMAIN name2Key :
         /\ hasRegistry(s, name2Key[i][1])
         /\ getKeyIfIntersection(s, name2Key[i][1], name2Key[i][2])
    THEN [errorHandle(s, IntersectionNsError(fullNamespace)) EXCEPT !.ret = Null]
    ELSE [s EXCEPT !.errorKeys = @ \ {fullNamespace},
                   !.keyValue = [p \in {q \in DOMAIN @ : q[1] # fullNamespace} |-> @[p]],
                   !.externalListeners =
                      [p \in {q \in DOMAIN @ : q[1] # fullNamespace} |-> @[p]],
                   !.namespaces =
                      [n \in DOMAIN @ \cup {fullNamespace} |->
                         IF n = fullNamespace
                         THEN [registry |-> TRUE,
                               i18n |-> IF n \in DOMAIN @ THEN @[n].i18n ELSE 0]
                         ELSE @[n]],
                   !.ret = fullNamespace]

register(s, fullNamespace) ==
  IF hasRegistry(s, fullNamespace) THEN [s EXCEPT !.ret = fullNamespace]
  ELSE IF ~testNamespacePath(fullNamespace)
  THEN [errorHandle(s, NamespaceError(fullNamespace)) EXCEPT !.ret = Null]
  ELSE
    LET name2Key == splitKeyByNamespace(fullNamespace) IN
    IF \E i \in DOMAIN name2Key :
         /\ hasRegistry(s, name2Key[i][1])
         /\ getKeyIfIntersection(s, name2Key[i][1], name2Key[i][2])
    THEN [errorHandle(s, IntersectionNsError(fullNamespace)) EXCEPT !.ret = Null]
    ELSE [s EXCEPT !.errorKeys = @ \ {fullNamespace},
                   !.namespaces =
                      [n \in DOMAIN @ \cup {fullNamespace} |->
                         IF n = fullNamespace
                         THEN [registry |-> TRUE,
                               i18n |-> IF n \in DOMAIN @ THEN @[n].i18n ELSE 0]
                         ELSE @[n]],
                   !.ret = fullNamespace]

\* A checkFullKey without the test for a registered namespace;
\* C8_SetRejectsNamespacePath tells it from checkFullKey.
checkFullKeyAny(s, namespace, key, remove) ==
  LET fullKey == concatNamespaceWithKey(namespace, key) IN
  IF remove
  THEN [s EXCEPT !.cache = [k \in DOMAIN @ \ {fullKey} |-> @[k]],
                 !.errorKeys = @ \ {fullKey},
                 !.ret = TRUE]
  ELSE [s EXCEPT !.ret = TRUE]

\* The result is the state with ret = the boolean returned.
checkFullKey(s, namespace, key, remove) ==
  LET fullKey == concatNamespaceWithKey(namespace, key) IN
  IF hasRegistry(s, fullKey)
  THEN [errorHandle(s, IntersectionError(namespace, key)) EXCEPT !.ret = FALSE]
  ELSE IF remove
       THEN [s EXCEPT !.cache = [k \in DOMAIN @ \ {fullKey} |-> @[k]],
                      !.errorKeys = @ \ {fullKey},
                      !.ret = TRUE]
       ELSE [s EXCEPT !.ret = TRUE]

(***************************************************************************)
(* I18nRegistry: _setValue, _setExternalKey, use.                          *)
(***************************************************************************)
putKey(kv, registry, key, entry) ==
  [p \in DOMAIN kv \cup {<<registry, key>>} |->
     IF p = <<registry, key>> THEN entry ELSE kv[p]]

dropKey(f, registry, key) ==
  [p \in DOMAIN f \ {<<registry, key>>} |-> f[p]]

setValue(s, registry, key, value, loc) ==
  IF ~testNamespacePath(key)
  THEN [errorHandle(s, KeyError(registry, key)) EXCEPT !.ret = FALSE]
  ELSE
    LET s1 == checkFullKey(s, registry, key, TRUE) IN
    IF ~s1.ret THEN s1
    ELSE
      LET rk == <<registry, key>>
          localeMap == IF rk \in DOMAIN s1.keyValue THEN s1.keyValue[rk].t ELSE <<>>
          s2 == [s1 EXCEPT !.keyValue =
                   putKey(@, registry, key, DirectEntry(mapSet(localeMap, loc, value)))]
          s3 == IF rk \in DOMAIN s2.externalListeners
                THEN [offKey(s2, s2.externalListeners[rk].ns, s2.externalListeners[rk].ls)
                        EXCEPT !.externalListeners = dropKey(@, registry, key)]
                ELSE s2
      IN [changeKey(s3, registry, key) EXCEPT !.ret = TRUE]

\* A _setExternalKey that leaves the previous subscription of the key in
\* place; C35_OneSubscription tells it from setExternalKey.
setExternalKeyKeepsOld(s, registry, key, externalFullKey, ns, partKey) ==
  LET s1 == [s EXCEPT !.keyValue = putKey(@, registry, key, BorrowEntry(externalFullKey))]
      ls == BorrowListener(registry, key, partKey)
      s3 == [s1 EXCEPT !.externalListeners = putKey(@, registry, key, [ns |-> ns, ls |-> ls])]
  IN changeKey(onKey(s3, ns, ls, FALSE), registry, key)

setExternalKey(s, registry, key, externalFullKey, ns, partKey) ==
  LET rk == <<registry, key>>
      s1 == [s EXCEPT !.keyValue = putKey(@, registry, key, BorrowEntry(externalFullKey))]
      s2 == IF rk \in DOMAIN s1.externalListeners
            THEN offKey(s1, s1.externalListeners[rk].ns, s1.externalListeners[rk].ls)
            ELSE s1
      ls == BorrowListener(registry, key, partKey)
      s3 == [s2 EXCEPT !.externalListeners = putKey(@, registry, key, [ns |-> ns, ls |-> ls])]
  IN changeKey(onKey(s3, ns, ls, FALSE), registry, key)

\* A use without the test for a key that points at itself, which leaves the
\* case to the simulated search; C12_SelfReferenceRejected tells it from use.
useNoSelfTest(s, registry, key, externalFullKey) ==
  LET rk == <<registry, key>> IN
  IF /\ rk \in DOMAIN s.keyValue
     /\ s.keyValue[rk].t = <<>>
     /\ s.keyValue[rk].k = externalFullKey
  THEN [s EXCEPT !.ret = TRUE]
  ELSE IF ~testNamespacePath(key)
  THEN [errorHandle(s, KeyError(registry, key)) EXCEPT !.ret = FALSE]
  ELSE IF ~testNamespacePath(externalFullKey)
  THEN [errorHandle(s, KeyError(Null, externalFullKey)) EXCEPT !.ret = FALSE]
  ELSE IF Len(externalFullKey) < 2
  THEN [errorHandle(s, KeyError(Null, externalFullKey)) EXCEPT !.ret = FALSE]
  ELSE
    LET ns == SubSeq(externalFullKey, 1, 1)
        partKey == SubSeq(externalFullKey, 2, Len(externalFullKey))
        ctx == VisitedI18n(Null, key, [r \in {registry} |-> <<key>>])
        sim == findValue(s, s.locale, externalFullKey, ctx)
        s1 == [s EXCEPT !.errors = @ \o sim.ctx.errors]
    IN
    IF sim.ctx.error THEN [s1 EXCEPT !.ret = FALSE]
    ELSE
      LET s2 == checkFullKey(s1, Null, externalFullKey, FALSE) IN
      IF ~s2.ret THEN s2
      ELSE
        LET s3 == checkFullKey(s2, registry, key, TRUE) IN
        IF ~s3.ret THEN s3
        ELSE [setExternalKey(s3, registry, key, externalFullKey, ns, partKey)
                EXCEPT !.ret = TRUE]

\* A use without the early return for a key that already borrows the same
\* target; C14_SameBorrowIsNoOp tells it from use.
useAlwaysLinks(s, registry, key, externalFullKey) ==
  IF ~testNamespacePath(key)
  THEN [errorHandle(s, KeyError(registry, key)) EXCEPT !.ret = FALSE]
  ELSE IF ~testNamespacePath(externalFullKey)
  THEN [errorHandle(s, KeyError(Null, externalFullKey)) EXCEPT !.ret = FALSE]
  ELSE IF Len(externalFullKey) < 2
  THEN [errorHandle(s, KeyError(Null, externalFullKey)) EXCEPT !.ret = FALSE]
  ELSE
    LET ns == SubSeq(externalFullKey, 1, 1)
        partKey == SubSeq(externalFullKey, 2, Len(externalFullKey))
    IN
    IF concatNamespaceWithKey(registry, key) = externalFullKey
    THEN [errorHandle(s, CircularDependencyError(Null, externalFullKey)) EXCEPT !.ret = FALSE]
    ELSE
      LET ctx == VisitedI18n(Null, key, [r \in {registry} |-> <<key>>])
          sim == findValue(s, s.locale, externalFullKey, ctx)
          s1 == [s EXCEPT !.errors = @ \o sim.ctx.errors]
      IN
      IF sim.ctx.error THEN [s1 EXCEPT !.ret = FALSE]
      ELSE
        LET s2 == checkFullKey(s1, Null, externalFullKey, FALSE) IN
        IF ~s2.ret THEN s2
        ELSE
          LET s3 == checkFullKey(s2, registry, key, TRUE) IN
          IF ~s3.ret THEN s3
          ELSE [setExternalKey(s3, registry, key, externalFullKey, ns, partKey)
                  EXCEPT !.ret = TRUE]

\* A use that invalidates its own key before it looks for a circular
\* dependency; C10_UseAtomic tells it from use.
useInvalidatesFirst(s, registry, key, externalFullKey) ==
  LET rk == <<registry, key>> IN
  IF /\ rk \in DOMAIN s.keyValue
     /\ s.keyValue[rk].t = <<>>
     /\ s.keyValue[rk].k = externalFullKey
  THEN [s EXCEPT !.ret = TRUE]
  ELSE IF ~testNamespacePath(key)
  THEN [errorHandle(s, KeyError(registry, key)) EXCEPT !.ret = FALSE]
  ELSE IF ~testNamespacePath(externalFullKey)
  THEN [errorHandle(s, KeyError(Null, externalFullKey)) EXCEPT !.ret = FALSE]
  ELSE IF Len(externalFullKey) < 2
  THEN [errorHandle(s, KeyError(Null, externalFullKey)) EXCEPT !.ret = FALSE]
  ELSE
    LET ns == SubSeq(externalFullKey, 1, 1)
        partKey == SubSeq(externalFullKey, 2, Len(externalFullKey))
    IN
    IF concatNamespaceWithKey(registry, key) = externalFullKey
    THEN [errorHandle(s, CircularDependencyError(Null, externalFullKey)) EXCEPT !.ret = FALSE]
    ELSE
      LET s0 == checkFullKey(s, registry, key, TRUE) IN
      IF ~s0.ret THEN s0
      ELSE
        LET ctx == VisitedI18n(Null, key, [r \in {registry} |-> <<key>>])
            sim == findValue(s0, s0.locale, externalFullKey, ctx)
            s1 == [s0 EXCEPT !.errors = @ \o sim.ctx.errors]
        IN
        IF sim.ctx.error THEN [s1 EXCEPT !.ret = FALSE]
        ELSE
          LET s2 == checkFullKey(s1, Null, externalFullKey, FALSE) IN
          IF ~s2.ret THEN s2
          ELSE [setExternalKey(s2, registry, key, externalFullKey, ns, partKey)
                  EXCEPT !.ret = TRUE]

use(s, registry, key, externalFullKey) ==
  LET rk == <<registry, key>> IN
  IF /\ rk \in DOMAIN s.keyValue
     /\ s.keyValue[rk].t = <<>>
     /\ s.keyValue[rk].k = externalFullKey
  THEN [s EXCEPT !.ret = TRUE]
  ELSE IF ~testNamespacePath(key)
  THEN [errorHandle(s, KeyError(registry, key)) EXCEPT !.ret = FALSE]
  ELSE IF ~testNamespacePath(externalFullKey)
  THEN [errorHandle(s, KeyError(Null, externalFullKey)) EXCEPT !.ret = FALSE]
  \* externalFullKey.indexOf('.') < 1: no dot (a leading dot was rejected above)
  ELSE IF Len(externalFullKey) < 2
  THEN [errorHandle(s, KeyError(Null, externalFullKey)) EXCEPT !.ret = FALSE]
  ELSE
    LET ns == SubSeq(externalFullKey, 1, 1)
        partKey == SubSeq(externalFullKey, 2, Len(externalFullKey))
    IN
    IF concatNamespaceWithKey(registry, key) = externalFullKey
    THEN [errorHandle(s, CircularDependencyError(Null, externalFullKey)) EXCEPT !.ret = FALSE]
    ELSE
      LET ctx == VisitedI18n(Null, key, [r \in {registry} |-> <<key>>])
          sim == findValue(s, s.locale, externalFullKey, ctx)
          s1 == [s EXCEPT !.errors = @ \o sim.ctx.errors]
      IN
      IF sim.ctx.error THEN [s1 EXCEPT !.ret = FALSE]
      ELSE
        LET s2 == checkFullKey(s1, Null, externalFullKey, FALSE) IN
        IF ~s2.ret THEN s2
        ELSE
          LET s3 == checkFullKey(s2, registry, key, TRUE) IN
          IF ~s3.ret THEN s3
          ELSE [setExternalKey(s3, registry, key, externalFullKey, ns, partKey)
                  EXCEPT !.ret = TRUE]

(***************************************************************************)
(* Configuration (utils.ts parseOptions) and the inputs of the model.      *)
(***************************************************************************)
\* options.locales, when non-empty, with locale and defaultLocale added; the
\* empty set stands for the predicate that accepts everything.
\* parseOptions that accepts the listed locales only.
parseOptionsListedOnly(opt) ==
  [locale |-> opt.locale,
   defaultLocale |-> IF opt.defaultLocale # "" THEN opt.defaultLocale ELSE opt.locale,
   locales |-> opt.locales]

parseOptions(opt) ==
  [locale |-> opt.locale,
   defaultLocale |-> IF opt.defaultLocale # "" THEN opt.defaultLocale ELSE opt.locale,
   locales |-> IF opt.locales # {}
               THEN opt.locales \cup
                    {opt.locale, IF opt.defaultLocale # "" THEN opt.defaultLocale ELSE opt.locale}
               ELSE {}]

(***************************************************************************)
(* Namespace facades.  A facade object is [id, namespace]; the root is     *)
(* made by the constructor.                                                *)
(***************************************************************************)
Facade(id, namespace) == [id |-> id, namespace |-> namespace]

root == Facade(1, Null)

\* _createI18n: an entry that is not in _namespaces is built in a local
\* variable and never put into the Map.
createI18n(s, fullNamespace) ==
  IF fullNamespace \in DOMAIN s.namespaces /\ s.namespaces[fullNamespace].i18n # 0
  THEN [s EXCEPT !.ret = Facade(s.namespaces[fullNamespace].i18n, fullNamespace)]
  ELSE LET made == [s EXCEPT !.facades = Append(@, fullNamespace)]
           id == Len(made.facades)
       IN IF fullNamespace \in DOMAIN s.namespaces
          THEN [made EXCEPT !.namespaces[fullNamespace].i18n = id,
                            !.ret = Facade(id, fullNamespace)]
          ELSE [made EXCEPT !.ret = Facade(id, fullNamespace)]

\* SharedSingleton.getNamespace.
getNamespace(s, fullNamespace) ==
  IF fullNamespace \in DOMAIN s.namespaces /\ s.namespaces[fullNamespace].i18n # 0
  THEN [s EXCEPT !.ret = Facade(s.namespaces[fullNamespace].i18n, fullNamespace)]
  ELSE createI18n(s, fullNamespace)

\* I18n.getNamespace and I18nImpl.getNamespace, called on the facade or the
\* registry of namespace this (null: the root); I18n.register and
\* I18nImpl.register likewise.
i18nGetNamespace(s, this, namespace) ==
  getNamespace(s, concatNamespaceWithKey(this, namespace))

i18nRegister(s, this, fullNamespace) == register(s, fullNamespace)

(***************************************************************************)
(* I18nRoot.on / once / off of the facade of a namespace (null: the root). *)
(***************************************************************************)
on(s, namespace, name, listener, once) ==
  IF name = "locale" THEN onLocale(s, listener, once)
  ELSE onKey(s, namespace, listener, once)

off(s, namespace, name, listener) ==
  IF name = "locale" THEN offLocale(s, listener)
  ELSE offKey(s, namespace, listener)

\* Bound of the model: committed set/use calls in one run.
MaxOps == 3
\* The largest number of facade objects made in a behaviour.
MaxFacades == 4

Options == [locale |-> "ru", defaultLocale |-> "", locales |-> {"en"}]
Locales == {"ru", "en"}
Values == {"v1", "v2"}

\* Inputs of Spec: two top-level registries that borrow from each other.
NamespaceInputs == {<<"a">>, <<"b">>}
KeyInputs ==
  [registry \in NamespaceInputs |->
     IF registry = <<"a">> THEN {<<"x">>, <<"y">>} ELSE {<<"x">>}]
ExternalInputs == {<<"a", "x">>, <<"a", "y">>, <<"b", "x">>}
\* getValue is called on a facade (any namespace) or on the root (null).
GetInputs == {<<Null, <<"a", "x">>>>, <<Null, <<"a", "y">>>>, <<Null, <<"b", "x">>>>,
              <<<<"a">>, <<"x">>>>}

\* Inputs of SpecTree: a registry nested in another one, and malformed names.
TreeLocales == {"ru"}
TreeLocaleInputs == {"ru", "en", "xx"}
TreeValues == {"v1", "v2"}
TreeNamespaceInputs == {<<"a">>, <<"a", "b">>, <<"">>, <<"a", "">>}
TreeKeyInputs ==
  [registry \in TreeNamespaceInputs |->
     IF registry = <<"a">> THEN {<<"x">>, <<"b">>, <<"b", "x">>, <<"">>}
                           ELSE {<<"x">>, <<"">>}]
TreeExternalInputs == {<<"a", "x">>, <<"a", "b">>, <<"a", "b", "x">>, <<"a">>, <<"", "x">>}
TreeGetInputs == {<<Null, <<"a", "x">>>>, <<Null, <<"a", "b">>>>, <<Null, <<"a", "b", "x">>>>,
                  <<<<"a", "b">>, <<"x">>>>}

Idle == [op |-> "idle", args |-> <<>>, ret |-> Null, errors |-> <<>>,
         events |-> <<>>, calls |-> <<>>, reads |-> <<>>, overflow |-> FALSE]

Init ==
  LET config == parseOptions(Options) IN
  /\ namespaces = <<>>
  /\ keyValue = <<>>
  /\ externalListeners = <<>>
  /\ keyEmitters = <<>>
  /\ listenersOnce = <<>>
  /\ localeListeners = <<>>
  /\ localeListenersOnce = {}
  /\ cache = <<>>
  /\ errorKeys = {}
  /\ locale = config.locale
  /\ facades = <<Null>>
  /\ defaultLocale = config.defaultLocale
  /\ locales = config.locales
  /\ last = Idle
  /\ nops = 0

\* The call op(args) returns in state s.
Returns(op, args, s) ==
  /\ namespaces' = s.namespaces
  /\ keyValue' = s.keyValue
  /\ externalListeners' = s.externalListeners
  /\ keyEmitters' = s.keyEmitters
  /\ listenersOnce' = s.listenersOnce
  /\ localeListeners' = s.localeListeners
  /\ localeListenersOnce' = s.localeListenersOnce
  /\ cache' = s.cache
  /\ errorKeys' = s.errorKeys
  /\ locale' = s.locale
  /\ facades' = s.facades
  /\ last' = [op |-> op, args |-> args, ret |-> s.ret, errors |-> s.errors,
              events |-> s.events, calls |-> s.calls, reads |-> s.reads,
              overflow |-> s.overflow]
  /\ UNCHANGED <<defaultLocale, locales>>

Registries == {ns \in DOMAIN namespaces : namespaces[ns].registry}

Register(NS) ==
  /\ last.op = "idle"
  /\ \E fullNamespace \in NS :
       \E s \in {register(State, fullNamespace)} :
         Returns("register", <<fullNamespace>>, s)
  /\ UNCHANGED nops

Set(K, V, L) ==
  /\ last.op = "idle"
  /\ \E registry \in Registries, value \in V, loc \in L :
       \E key \in K[registry] :
         \E s \in {setValue(State, registry, key, value, loc)} :
           /\ s.ret => nops < MaxOps
           /\ Returns("set", <<registry, key, value, loc>>, s)
           /\ nops' = IF s.ret THEN nops + 1 ELSE nops

Use(K, E) ==
  /\ last.op = "idle"
  /\ \E registry \in Registries, externalFullKey \in E :
       \E key \in K[registry] :
         \E s \in {use(State, registry, key, externalFullKey)} :
           /\ s.ret => nops < MaxOps
           /\ Returns("use", <<registry, key, externalFullKey>>, s)
           /\ nops' = IF s.ret THEN nops + 1 ELSE nops

GetValue(G) ==
  /\ last.op = "idle"
  /\ \E in \in G :
       \E s \in {getValue(State, in[1], in[2])} :
         Returns("getValue", in, s)
  /\ UNCHANGED nops

ChangeLocale(LS) ==
  /\ last.op = "idle"
  /\ \E loc \in LS :
       \E s \in {changeLocale(State, loc)} :
         Returns("changeLocale", <<loc>>, s)
  /\ UNCHANGED nops

\* facade.on(name, listener, once) and facade.off(name, listener), the facade
\* being the one of a namespace of S.
On(S, F) ==
  /\ last.op = "idle"
  /\ \E namespace \in S, name \in {"locale", "key"}, listener \in F, once \in BOOLEAN :
       \E s \in {on(State, namespace, name, listener, once)} :
         Returns("on", <<namespace, name, listener, once>>, s)
  /\ UNCHANGED nops

Off(S, F) ==
  /\ last.op = "idle"
  /\ \E namespace \in S, name \in {"locale", "key"}, listener \in F :
       \E s \in {off(State, namespace, name, listener)} :
         Returns("off", <<namespace, name, listener>>, s)
  /\ UNCHANGED nops

\* There is a facade or a registry of namespace this to call a method of.
Instance(this) == this \in Range(facades) \/ hasRegistry(State, this)

\* instance.getNamespace(namespace) and instance.register(fullNamespace), the
\* instance being the facade or the registry of a namespace of T.
GetNamespace(T, N) ==
  /\ last.op = "idle"
  /\ \E this \in {n \in T : Instance(n)}, namespace \in N :
       \E s \in {i18nGetNamespace(State, this, namespace)} :
         /\ Len(s.facades) <= MaxFacades
         /\ Returns("getNamespace", <<this, namespace>>, s)
  /\ UNCHANGED nops

RegisterOn(T, NS) ==
  /\ last.op = "idle"
  /\ \E this \in {n \in T : Instance(n)}, fullNamespace \in NS :
       \E s \in {i18nRegister(State, this, fullNamespace)} :
         Returns("register", <<this, fullNamespace>>, s)
  /\ UNCHANGED nops

\* The caller has taken the result; the next call may start.
Return ==
  /\ last.op # "idle"
  /\ last' = Idle
  /\ UNCHANGED <<core, defaultLocale, locales, nops>>

Next ==
  \/ Register(NamespaceInputs)
  \/ Set(KeyInputs, Values, Locales)
  \/ Use(KeyInputs, ExternalInputs)
  \/ GetValue(GetInputs)
  \/ ChangeLocale(Locales)
  \/ Return

Spec == Init /\ [][Next]_vars

NextTree ==
  \/ Register(TreeNamespaceInputs)
  \/ Set(TreeKeyInputs, TreeValues, TreeLocales)
  \/ Use(TreeKeyInputs, TreeExternalInputs)
  \/ GetValue(TreeGetInputs)
  \/ ChangeLocale(TreeLocaleInputs)
  \/ Return

SpecTree == Init /\ [][NextTree]_vars

\* A third universe, for the locale fallback: one namespace, values stored
\* under three locales of which "fr" is not accepted by changeLocale.
LocaleInputs == {"ru", "en", "fr"}
LocaleNamespaceInputs == {<<"a">>}
LocaleKeyInputs == [registry \in LocaleNamespaceInputs |-> {<<"x">>, <<"y">>}]
LocaleExternalInputs == {<<"a", "x">>}
LocaleGetInputs == {<<Null, <<"a", "x">>>>, <<<<"a">>, <<"y">>>>}

NextLocale ==
  \/ Register(LocaleNamespaceInputs)
  \/ Set(LocaleKeyInputs, Values, LocaleInputs)
  \/ Use(LocaleKeyInputs, LocaleExternalInputs)
  \/ GetValue(LocaleGetInputs)
  \/ ChangeLocale(LocaleInputs)
  \/ Return

SpecLocale == Init /\ [][NextLocale]_vars

\* A fourth universe, for the notifications: one registry whose keys lie at
\* two depths, and listeners subscribed on the root, on the registry's
\* namespace and on a namespace that has no registry.
EventLocales == {"ru"}
EventValues == {"v1"}
EventNamespaceInputs == {<<"a">>}
EventKeyInputs == [registry \in EventNamespaceInputs |-> {<<"x">>, <<"b", "x">>}]
EventExternalInputs == {<<"a", "x">>, <<"a", "b", "x">>}
EventGetInputs == {<<Null, <<"a", "x">>>>}
EventScopeInputs == {Null, <<"a">>, <<"a", "b">>}
EventListeners == {UserListener("f")}

NextEvents ==
  \/ Register(EventNamespaceInputs)
  \/ Set(EventKeyInputs, EventValues, EventLocales)
  \/ Use(EventKeyInputs, EventExternalInputs)
  \/ GetValue(EventGetInputs)
  \/ ChangeLocale(Locales)
  \/ On(EventScopeInputs, EventListeners)
  \/ Off(EventScopeInputs, EventListeners)
  \/ Return

SpecEvents == Init /\ [][NextEvents]_vars

\* A fifth universe, for the namespace facades: facades are asked for and
\* registries registered through the root and through the instances of a.
FacadeCallers == {Null, <<"a">>}
FacadeNamespaceInputs == {<<"a">>, <<"b">>, <<"a", "b">>}

NextFacade ==
  \/ RegisterOn(FacadeCallers, FacadeNamespaceInputs)
  \/ GetNamespace(FacadeCallers, FacadeNamespaceInputs)
  \/ Return

SpecFacade == Init /\ [][NextFacade]_vars

(***************************************************************************)
(* Properties.                                                             *)
(***************************************************************************)
FullKeyOf(rk) == concatNamespaceWithKey(rk[1], rk[2])
IsBorrow(rk) == rk \in DOMAIN keyValue /\ keyValue[rk].t = <<>>
IsDirect(rk) == rk \in DOMAIN keyValue /\ keyValue[rk].t # <<>>

\* What a search of fullKey with a new visit context finds in the current
\* state under the current locale, the default standing for "not found".
Fresh(fullKey) ==
  LET value == findValue(State, locale, fullKey, VisitedI18n(Null, fullKey, <<>>))
  IN IF value.found THEN value.value ELSE DefaultValue

\* What getValue(namespace, key) returns when called in the current state.
Read(namespace, key) == getValue(State, namespace, key).ret

Committed(op) == last.op = op /\ last.ret = TRUE

\* Following borrow links from fullKey leads to target in at most n steps.
RECURSIVE Reaches(_, _, _)
Reaches(fullKey, target, n) ==
  \/ fullKey = target
  \/ /\ n > 0
     /\ \E rk \in DOMAIN keyValue :
          /\ FullKeyOf(rk) = fullKey
          /\ IsBorrow(rk)
          /\ Reaches(keyValue[rk].k, target, n - 1)

\* C1: when a set or a use of a key has just been committed, every key that
\* borrows it, directly or through a chain of borrows, is resolved by getValue
\* to what its target has now under the current locale (a value cached for
\* the borrowing key before the change is not returned).
C1_BorrowerFollowsTarget ==
  (Committed("set") \/ Committed("use")) =>
    \A rk \in DOMAIN keyValue :
      (/\ IsBorrow(rk)
       /\ Reaches(keyValue[rk].k, concatNamespaceWithKey(last.args[1], last.args[2]),
                  Cardinality(DOMAIN keyValue)))
      => Read(rk[1], rk[2]) = Fresh(keyValue[rk].k)

\* C2: after a committed set(localKey, value, locale) the full key is neither
\* cached nor recorded as unresolved, getValue returns what a new search
\* finds, and that is the value just set when locale is the current locale.
C2_SetInvalidatesKey ==
  Committed("set") =>
    LET fullKey == concatNamespaceWithKey(last.args[1], last.args[2]) IN
    /\ fullKey \notin DOMAIN cache
    /\ fullKey \notin errorKeys
    /\ Read(Null, fullKey) = Fresh(fullKey)
    /\ last.args[4] = locale => Read(Null, fullKey) = last.args[3]

\* The arguments the properties below apply the operations to.
AllNamespaceInputs == NamespaceInputs \cup TreeNamespaceInputs
AllKeyInputs ==
  UNION {KeyInputs[r] : r \in NamespaceInputs} \cup
  UNION {TreeKeyInputs[r] : r \in TreeNamespaceInputs}
AllExternalInputs == ExternalInputs \cup TreeExternalInputs
AllGetInputs == GetInputs \cup TreeGetInputs

\* The call that returned s changed nothing of the shared state.
SameCore(s) ==
  /\ s.namespaces = namespaces
  /\ s.keyValue = keyValue
  /\ s.externalListeners = externalListeners
  /\ s.keyEmitters = keyEmitters
  /\ s.listenersOnce = listenersOnce
  /\ s.localeListeners = localeListeners
  /\ s.localeListenersOnce = localeListenersOnce
  /\ s.cache = cache
  /\ s.errorKeys = errorKeys
  /\ s.locale = locale
  /\ s.facades = facades

\* C3: when getValue(namespace, key) has just returned, calling it again with
\* nothing in between returns the identical value, the default included.
C3_GetValueRepeats ==
  last.op = "getValue" => Read(last.args[1], last.args[2]) = last.ret

C3_Witness ==
  /\ last.op = "getValue"
  /\ last.ret # DefaultValue
  /\ concatNamespaceWithKey(last.args[1], last.args[2]) \in DOMAIN cache
  /\ locale # defaultLocale

\* C4: a getValue that found no value leaves the full key in UnresolvedSet,
\* and while a full key is there getValue returns the default, reports
\* nothing to the error sink and changes no state.
C4_UnresolvedReportedOnce ==
  /\ (last.op = "getValue" /\ last.ret = DefaultValue) =>
        concatNamespaceWithKey(last.args[1], last.args[2]) \in errorKeys
  /\ \A in \in AllGetInputs :
       concatNamespaceWithKey(in[1], in[2]) \in errorKeys =>
         LET s == getValue(State, in[1], in[2]) IN
         /\ s.ret = DefaultValue
         /\ s.errors = <<>>
         /\ SameCore(s)

C4_Witness ==
  /\ last.op = "getValue"
  /\ last.ret = DefaultValue
  /\ last.errors = <<>>

\* C5: every full key in UnresolvedSet is one for which a new search finds no
\* value; a borrowing key recorded as unresolved leaves the set when its
\* target, at any depth of the chain, gets a value.
C5_UnresolvedSetSound ==
  \A fullKey \in errorKeys : Fresh(fullKey) = DefaultValue

C5_Witness ==
  /\ Committed("set")
  /\ \E rk \in DOMAIN keyValue :
       /\ IsBorrow(rk)
       /\ keyValue[rk].k # concatNamespaceWithKey(last.args[1], last.args[2])
       /\ Reaches(keyValue[rk].k, concatNamespaceWithKey(last.args[1], last.args[2]),
                  Cardinality(DOMAIN keyValue))
       /\ FullKeyOf(rk) \notin DOMAIN cache
       /\ FullKeyOf(rk) \notin errorKeys
       /\ Fresh(FullKeyOf(rk)) = last.args[3]

\* C6: register of an already registered namespace returns that registry,
\* reports no error and changes no state.
C6_RegisterIdempotent ==
  \A fullNamespace \in AllNamespaceInputs :
    hasRegistry(State, fullNamespace) =>
      LET s == register(State, fullNamespace) IN
      /\ s.ret = fullNamespace
      /\ s.errors = <<>>
      /\ SameCore(s)

C6_Witness ==
  /\ last.op = "register"
  /\ last.ret = last.args[1]
  /\ last.errors = <<>>
  /\ \E rk \in DOMAIN keyValue : rk[1] = last.args[1] /\ IsBorrow(rk)

\* Registry R owns a key one of whose cumulative prefixes, appended to
\* R.namespace, is fullNamespace.
OwnsKeyUnder(fullNamespace) ==
  \E rk \in DOMAIN keyValue :
    /\ hasRegistry(State, rk[1])
    /\ \E part \in Range(splitKeyIntoParts(rk[2])) :
         concatNamespaceWithKey(rk[1], part) = fullNamespace

\* C7: whenever a registered Registry owns a key with a cumulative prefix
\* that, appended to its namespace, equals fullNamespace, the call
\* register(fullNamespace) returns null, reports NamespaceKeyIntersection and
\* changes no state.
C7_RegisterRejectsKeyPath ==
  \A fullNamespace \in AllNamespaceInputs :
    OwnsKeyUnder(fullNamespace) =>
      LET s == register(State, fullNamespace) IN
      /\ s.ret = Null
      /\ Codes(s.errors) = {"IntersectionNsError"}
      /\ SameCore(s)

\* C8: whenever a Registry is registered exactly at R.namespace.localKey, the
\* call R.set(localKey, value, locale) returns false, reports
\* KeyNamespaceIntersection, emits nothing and changes no state.
C8_SetRejectsNamespacePath ==
  \A registry \in Registries, key \in AllKeyInputs :
    hasRegistry(State, concatNamespaceWithKey(registry, key)) =>
      \A value \in TreeValues, loc \in Locales :
        LET s == setValue(State, registry, key, value, loc) IN
        /\ s.ret = FALSE
        /\ Codes(s.errors) = {"IntersectionError"}
        /\ s.events = <<>>
        /\ SameCore(s)

C8_Witness ==
  /\ last.op = "set"
  /\ last.ret = FALSE
  /\ Codes(last.errors) = {"IntersectionError"}
  /\ hasRegistry(State, concatNamespaceWithKey(last.args[1], last.args[2]))
  /\ keyValue # <<>>

\* C9: for every Registry R and every key k of R, no cumulative prefix of
\* R.namespace.k longer than R.namespace, the full path included, is the
\* namespace of a registered Registry.
C9_NoPathCollision ==
  \A rk \in DOMAIN keyValue :
    \A part \in Range(splitKeyIntoParts(rk[2])) :
      ~hasRegistry(State, concatNamespaceWithKey(rk[1], part))

\* C10: a use(localKey, externalFullKey) that returns false has emitted
\* nothing and left the key tables, Cache, UnresolvedSet and subscriptions as
\* they were, so every key resolves as before the call.
C10_UseAtomic ==
  \A registry \in Registries \cap TreeNamespaceInputs, externalFullKey \in TreeExternalInputs :
    \A key \in TreeKeyInputs[registry] :
      LET s == use(State, registry, key, externalFullKey) IN
      ~s.ret =>
        /\ s.events = <<>>
        /\ s.errors # <<>>
        /\ SameCore(s)

C10_Witness ==
  /\ last.op = "use"
  /\ last.ret = FALSE
  /\ "CircularDependencyError" \in Codes(last.errors)
  /\ concatNamespaceWithKey(last.args[1], last.args[2]) # last.args[3]
  /\ IsDirect(<<last.args[1], last.args[2]>>)
  /\ concatNamespaceWithKey(last.args[1], last.args[2]) \in DOMAIN cache

\* R2.use(b, full key of R1.a) is rejected as a circular dependency in the
\* current state, where R1.a borrows the full key of R2.b.
BackBorrowRejected(rk, registry, key) ==
  LET s == use(State, registry, key, FullKeyOf(rk)) IN
  /\ s.ret = FALSE
  /\ "CircularDependencyError" \in Codes(s.errors)
  /\ s.events = <<>>
  /\ SameCore(s)

\* C11: while R1.a borrows the full key of R2.b, R2.use(b, full key of R1.a)
\* returns false, reports CircularDependency and changes nothing, and
\* getValue of R1.a returns the default whenever R2.b has no value.
C11_MutualBorrowRejected ==
  \A rk \in DOMAIN keyValue :
    IsBorrow(rk) =>
      /\ \A registry \in Registries, key \in AllKeyInputs :
           concatNamespaceWithKey(registry, key) = keyValue[rk].k =>
             BackBorrowRejected(rk, registry, key)
      /\ Fresh(keyValue[rk].k) = DefaultValue => Read(rk[1], rk[2]) = DefaultValue

\* C12: use(localKey, externalFullKey) with a well-formed localKey and
\* externalFullKey = namespace.localKey returns false, reports exactly one
\* CircularDependency error for externalFullKey, emits nothing and changes
\* no state.
C12_SelfReferenceRejected ==
  \A registry \in Registries, key \in AllKeyInputs :
    testNamespacePath(key) =>
      LET externalFullKey == concatNamespaceWithKey(registry, key)
          s == use(State, registry, key, externalFullKey)
      IN /\ s.ret = FALSE
         /\ s.errors = <<CircularDependencyError(Null, externalFullKey)>>
         /\ s.events = <<>>
         /\ SameCore(s)

C12_Witness ==
  /\ last.op = "use"
  /\ last.ret = FALSE
  /\ last.args[3] = concatNamespaceWithKey(last.args[1], last.args[2])
  /\ last.errors = <<CircularDependencyError(Null, last.args[3])>>
  /\ IsBorrow(<<last.args[1], last.args[2]>>)

\* C13: when the borrow links from a key end at a Direct entry, getValue of
\* the borrowing key returns what getValue of the Direct key returns under
\* the current locale, whatever the order of the use and set calls was.
C13_ChainResolvesToTarget ==
  \A rk \in DOMAIN keyValue, dk \in DOMAIN keyValue :
    (/\ IsBorrow(rk)
     /\ IsDirect(dk)
     /\ Reaches(keyValue[rk].k, FullKeyOf(dk), Cardinality(DOMAIN keyValue)))
    => Read(rk[1], rk[2]) = Read(dk[1], dk[2])

\* C14: use(localKey, externalFullKey) on a key that already borrows
\* externalFullKey returns true, reports no error, emits nothing and changes
\* neither the key tables, the subscriptions, Cache nor UnresolvedSet.
C14_SameBorrowIsNoOp ==
  \A rk \in DOMAIN keyValue :
    IsBorrow(rk) =>
      LET s == use(State, rk[1], rk[2], keyValue[rk].k) IN
      /\ s.ret = TRUE
      /\ s.errors = <<>>
      /\ s.events = <<>>
      /\ SameCore(s)

C14_Witness ==
  /\ Committed("use")
  /\ last.events = <<>>
  /\ last.errors = <<>>
  /\ IsBorrow(<<last.args[1], last.args[2]>>)
  /\ keyValue[<<last.args[1], last.args[2]>>].k = last.args[3]
  /\ concatNamespaceWithKey(last.args[1], last.args[2]) \in DOMAIN cache

\* No Borrow entry targets a full key that is a registered namespace.
NoBorrowOfNamespace ==
  \A rk \in DOMAIN keyValue : IsBorrow(rk) => ~hasRegistry(State, keyValue[rk].k)

\* use(key, externalFullKey) on registry is rejected without effect, with
\* KeyNamespaceIntersection unless an earlier step of use has rejected it.
UseRejectedAsNamespace(registry, key, externalFullKey) ==
  LET s == use(State, registry, key, externalFullKey) IN
  /\ s.ret = FALSE
  /\ s.events = <<>>
  /\ SameCore(s)
  /\ \/ Codes(s.errors) = {"IntersectionError"}
     \/ /\ s.errors # <<>>
        /\ Codes(s.errors) \subseteq {"KeyError", "CircularDependencyError"}

\* C15: use(localKey, externalFullKey) is rejected and commits nothing when a
\* Registry is registered exactly at externalFullKey or exactly at
\* namespace.localKey, and in every state no Borrow entry targets a full key
\* that is a registered namespace.
C15_BorrowTargetIsNoNamespace ==
  /\ NoBorrowOfNamespace
  /\ \A registry \in Registries, key \in AllKeyInputs, externalFullKey \in AllExternalInputs :
       (\/ hasRegistry(State, externalFullKey)
        \/ hasRegistry(State, concatNamespaceWithKey(registry, key)))
       => UseRejectedAsNamespace(registry, key, externalFullKey)

\* The values a Direct entry holds.
StoredValues(t) == {t[i].value : i \in DOMAIN t}

\* value is what the fallback order current locale, defaultLocale, any other
\* locale selects from the Direct entry t.
FollowsFallbackOrder(t, value) ==
  /\ mapGet(t, locale) # Undefined => value = mapGet(t, locale)
  /\ (mapGet(t, locale) = Undefined /\ mapGet(t, defaultLocale) # Undefined)
       => value = mapGet(t, defaultLocale)
  /\ value \in StoredValues(t)

\* C16: getValue of a key with a Direct entry returns the value the entry
\* stores for the current locale if there is one, otherwise the value stored
\* for defaultLocale if there is one, otherwise a value stored for another
\* locale; the default is not returned, a Direct entry holding at least one
\* value.
C16_LocaleFallbackOrder ==
  \A rk \in DOMAIN keyValue :
    IsDirect(rk) => FollowsFallbackOrder(keyValue[rk].t, Read(rk[1], rk[2]))

\* The changeLocale that has just returned changed the locale.
LocaleChanged ==
  /\ last.op = "changeLocale"
  /\ last.events # <<>>

\* C17: when a changeLocale has just changed the locale, no value is cached
\* and getValue of every key returns what a new search finds under the new
\* locale; for a Direct key with a value stored for the new locale that is
\* this value.
C17_LocaleChangeInvalidates ==
  LocaleChanged =>
    /\ \A in \in AllGetInputs \cup LocaleGetInputs :
         /\ concatNamespaceWithKey(in[1], in[2]) \notin DOMAIN cache
         /\ Read(in[1], in[2]) = Fresh(concatNamespaceWithKey(in[1], in[2]))
    /\ \A rk \in DOMAIN keyValue :
         (IsDirect(rk) /\ mapGet(keyValue[rk].t, locale) # Undefined)
           => Read(rk[1], rk[2]) = mapGet(keyValue[rk].t, locale)

\* C18: changeLocale(l) returns the locale that is current after the call;
\* with l failing the acceptance predicate it reports UnregisteredLocale and
\* neither changes the state nor emits; with l the current locale it reports
\* nothing, changes nothing and emits nothing.
C18_LocaleChangeRejected ==
  \A loc \in LocaleInputs \cup TreeLocaleInputs :
    LET s == changeLocale(State, loc) IN
    /\ s.ret = s.locale
    /\ ~isSupportedLocale(State, loc) =>
         /\ s.errors = <<UnregisteredLocaleError(loc)>>
         /\ s.events = <<>>
         /\ SameCore(s)
    /\ loc = locale =>
         /\ s.errors = <<>>
         /\ s.events = <<>>
         /\ SameCore(s)

C18_Witness ==
  /\ last.op = "changeLocale"
  /\ last.errors = <<UnregisteredLocaleError(last.args[1])>>
  /\ last.ret = locale
  /\ locale # defaultLocale
  /\ cache # <<>>

\* C19: a changeLocale to an accepted locale other than the current one sets
\* the locale, empties Cache, leaves UnresolvedSet, the namespaces, every key
\* table, every 'key' subscription and every persistent 'locale' subscription
\* as they were, reports no error and emits one 'locale' notification carrying
\* the new locale, which invokes each 'locale' listener once, and no 'key'
\* notification.
C19_LocaleChangeFrame ==
  \A loc \in LocaleInputs \cup TreeLocaleInputs :
    (isSupportedLocale(State, loc) /\ loc # locale) =>
      LET s == changeLocale(State, loc) IN
      /\ s.ret = loc
      /\ s.locale = loc
      /\ s.cache = <<>>
      /\ s.errorKeys = errorKeys
      /\ s.namespaces = namespaces
      /\ s.keyValue = keyValue
      /\ s.externalListeners = externalListeners
      /\ s.keyEmitters = keyEmitters
      /\ s.listenersOnce = listenersOnce
      /\ s.localeListeners =
           SelectSeq(localeListeners, LAMBDA ls : ls \notin localeListenersOnce)
      /\ s.calls = [i \in DOMAIN localeListeners |->
                      [listener |-> localeListeners[i].fn, scope |-> LocaleScope,
                       name |-> "locale", value |-> <<loc>>]]
      /\ s.errors = <<>>
      /\ s.events = <<[name |-> "locale", namespace |-> Null, key |-> <<loc>>]>>

C19_Witness ==
  /\ LocaleChanged
  /\ last.events = <<[name |-> "locale", namespace |-> Null, key |-> <<locale>>]>>
  /\ cache = <<>>
  /\ errorKeys # {}
  /\ externalListeners # <<>>
  /\ keyValue # <<>>
  /\ localeListeners # <<>> /\ localeListenersOnce = {} /\ Len(last.calls) = 1
  /\ \E S \in DOMAIN keyEmitters : \E ls \in Range(keyEmitters[S]) : isUserListener(ls)


\* The scopes a 'key' listener is subscribed at in the property below: the
\* root, namespaces with and without a registry, full keys and a stranger.
ScopeProbes ==
  {Null, <<"a">>, <<"a", "b">>, <<"b">>, <<"x">>, <<"a", "x">>, <<"a", "b", "x">>}

\* S is a proper dotted prefix of F, and the rest of F after S.
IsProperPrefix(S, F) == Len(S) < Len(F) /\ SubSeq(F, 1, Len(S)) = S
KeyAfter(S, F) == SubSeq(F, Len(S) + 1, Len(F))

\* How many times the call that returned s invoked the 'key' listener fn of
\* scope S with value v, and how many times the call changed a key that a
\* listener of scope S is to receive as v.
TimesCalled(s, fn, S, v) ==
  Cardinality({i \in DOMAIN s.calls :
                 s.calls[i] = [listener |-> fn, scope |-> S, name |-> "key", value |-> v]})
TimesChanged(s, S, v) ==
  Cardinality({i \in DOMAIN s.events :
                 /\ s.events[i].name = "key"
                 /\ LET F == concatNamespaceWithKey(s.events[i].namespace, s.events[i].key)
                    IN IF S = Null THEN v = F
                       ELSE IsProperPrefix(S, F) /\ v = KeyAfter(S, F)})

\* The call that returned s, made with the persistent 'key' listeners of
\* state s0 subscribed, invoked each of them as its scope demands.
ScopedDelivery(s0, s) ==
  \A S \in DOMAIN s0.keyEmitters :
    \A ls \in Range(s0.keyEmitters[S]) \ s0.listenersOnce[S] :
      isUserListener(ls) =>
        \A v \in {s.calls[i].value : i \in DOMAIN s.calls} \cup
                 {concatNamespaceWithKey(s.events[i].namespace, s.events[i].key) :
                    i \in DOMAIN s.events} \cup
                 {KeyAfter(S, concatNamespaceWithKey(s.events[i].namespace, s.events[i].key)) :
                    i \in {j \in DOMAIN s.events : S # Null}} :
          TimesCalled(s, ls.fn, S, v) = TimesChanged(s, S, v)

\* C20: whenever a set or a use (a call starts when none is under way)
\* changes keys, a persistent 'key' listener
\* subscribed at namespace scope S is invoked for a changed full key F exactly
\* when S is a proper dotted prefix of F, with the rest of F after S, whether
\* or not S has a registry; a listener of the root scope is invoked with F
\* itself; a call that changes no key invokes no listener.
C20_KeyListenerScope ==
  \A S \in {P \in ScopeProbes : last.op = "idle"} :
    LET s0 == on(State, S, "key", UserListener("probe"), FALSE) IN
    /\ \A registry \in Registries \cap EventNamespaceInputs :
         \A key \in EventKeyInputs[registry] :
           /\ \A value \in EventValues, loc \in EventLocales :
                LET s == setValue(s0, registry, key, value, loc) IN
                ~s.overflow => ScopedDelivery(s0, s)
           /\ \A externalFullKey \in EventExternalInputs :
                LET s == use(s0, registry, key, externalFullKey) IN
                ~s.overflow => ScopedDelivery(s0, s)

\* a.b.x, which a.x borrows, has been set: the listener of the namespace a.b,
\* which has no registry, received x, the listener of a received b.x and x,
\* and the listener of the root received both full keys.
C20_Witness ==
  /\ last.op = "set" /\ last.ret = TRUE /\ ~last.overflow
  /\ last.args[2] = <<"b", "x">>
  /\ ~hasRegistry(State, <<"a", "b">>)
  /\ \A c \in {<<Null, <<"a", "b", "x">>>>, <<Null, <<"a", "x">>>>,
               <<<<"a">>, <<"b", "x">>>>, <<<<"a">>, <<"x">>>>,
               <<<<"a", "b">>, <<"x">>>>} :
       [listener |-> "f", scope |-> c[1], name |-> "key", value |-> c[2]] \in Range(last.calls)
  /\ Len(last.calls) = 5

\* The persistent 'key' listeners of state s0 were each invoked at most once
\* with any one value by the call that returned s, and once with each value
\* their scope is to receive for a key the call changed.
DeliveredOnce(s0, s) ==
  \A S \in DOMAIN s0.keyEmitters :
    \A ls \in Range(s0.keyEmitters[S]) \ s0.listenersOnce[S] :
      isUserListener(ls) =>
        \A v \in {s.calls[i].value : i \in DOMAIN s.calls} \cup
                 {concatNamespaceWithKey(s.events[i].namespace, s.events[i].key) :
                    i \in DOMAIN s.events} \cup
                 {KeyAfter(S, concatNamespaceWithKey(s.events[i].namespace, s.events[i].key)) :
                    i \in {j \in DOMAIN s.events : S # Null}} :
          /\ TimesCalled(s, ls.fn, S, v) <= 1
          /\ TimesCalled(s, ls.fn, S, v) = 1 <=> TimesChanged(s, S, v) >= 1

\* A call that failed changed no key and invoked no listener.
FiresNothing(s) == s.events = <<>> /\ s.calls = <<>>

\* C21: a set that succeeds changes its key whatever the locale and the value
\* stored before, a use that links a key changes it, and every call that
\* succeeds delivers each key it changed, the keys that borrow it included,
\* exactly once to each persistent listener of each namespace above the key
\* and of the root; a set or a use that fails delivers nothing.
C21_KeyFiresOnce ==
  \A S \in {P \in {Null, <<"a">>, <<"a", "b">>} : last.op = "idle"} :
    LET s0 == on(State, S, "key", UserListener("probe"), FALSE) IN
    \A registry \in Registries :
      \A key \in {<<"x">>, <<"b", "x">>} :
        /\ \A value \in Values, loc \in Locales :
             LET s == setValue(s0, registry, key, value, loc) IN
             ~s.overflow =>
               IF s.ret
               THEN /\ s.events[1] = [name |-> "key", namespace |-> registry, key |-> key]
                    /\ DeliveredOnce(s0, s)
               ELSE FiresNothing(s)
        /\ \A externalFullKey \in {<<"a", "x">>, <<"a", "b", "x">>} :
             LET s == use(s0, registry, key, externalFullKey) IN
             ~s.overflow =>
               IF s.ret
               THEN /\ s.keyValue # s0.keyValue =>
                         s.events[1] = [name |-> "key", namespace |-> registry, key |-> key]
                    /\ DeliveredOnce(s0, s)
               ELSE FiresNothing(s)

\* What a search of fullKey with a new visit context finds in state s under
\* its locale, the default standing for "not found".
FreshIn(s, fullKey) ==
  LET value == findValue(s, s.locale, fullKey, VisitedI18n(Null, fullKey, <<>>))
  IN IF value.found THEN value.value ELSE DefaultValue

\* Every getValue a listener issued during the call that returned s was
\* returned what the key has once the call is over.
ReadsAreCurrent(s) ==
  \A i \in DOMAIN s.reads :
    s.reads[i].got = FreshIn(s, concatNamespaceWithKey(s.reads[i].namespace, s.reads[i].key))

\* C22: a listener that calls getValue for the key it is notified of, from
\* inside the 'key' notification of a set or a use, is returned the value the
\* key has after the call, which for the key of a set under the current
\* locale is the value set; a listener that calls getValue from inside the
\* 'locale' notification of a changeLocale is returned the value the key has
\* under the new locale.
C22_ReadsAfterCommit ==
  last.op = "idle" =>
    /\ \A registry \in Registries \cap NamespaceInputs, S \in {Null, <<"a">>, <<"b">>} :
         LET s0 == on(State, S, "key", ReadingListener("probe", S, <<>>), FALSE) IN
         \A key \in KeyInputs[registry] :
           /\ \A value \in Values, loc \in Locales :
                LET s == setValue(s0, registry, key, value, loc) IN
                /\ ReadsAreCurrent(s)
                /\ (s.ret /\ loc = s.locale /\ S \in {Null, registry}) =>
                     \E i \in DOMAIN s.reads :
                       /\ concatNamespaceWithKey(s.reads[i].namespace, s.reads[i].key) =
                            concatNamespaceWithKey(registry, key)
                       /\ s.reads[i].got = value
           /\ \A externalFullKey \in ExternalInputs :
                ReadsAreCurrent(use(s0, registry, key, externalFullKey))
    /\ \A loc \in Locales, in \in GetInputs :
         LET s0 == on(State, Null, "locale", ReadingListener("probe", in[1], in[2]), FALSE)
             s == changeLocale(s0, loc)
         IN /\ ReadsAreCurrent(s)
            /\ s.locale # locale => Len(s.reads) = 1

\* The call that returned s made an emission in the 'key' scope S.
EmitsIn(s, S) ==
  \E i \in DOMAIN s.events :
    /\ s.events[i].name = "key"
    /\ S = Null \/ IsProperPrefix(S, concatNamespaceWithKey(s.events[i].namespace, s.events[i].key))

\* How many times the call that returned s invoked the listener fn of scope S.
Invocations(s, fn, S) ==
  Cardinality({i \in DOMAIN s.calls : s.calls[i].listener = fn /\ s.calls[i].scope = S})

\* A one-shot listener of S in state s0 is invoked once by the first call
\* that emits in S, however many keys of S that call changes, and is then no
\* longer subscribed; a call that does not emit in S leaves it waiting.
OneShotConsumed(s0, s) ==
  \A S \in DOMAIN s0.keyEmitters :
    \A ls \in {l \in s0.listenersOnce[S] : isUserListener(l)} :
      IF EmitsIn(s, S)
      THEN /\ Invocations(s, ls.fn, S) = 1
           /\ ls \notin Range(s.keyEmitters[S])
           /\ ls \notin s.listenersOnce[S]
      ELSE /\ Invocations(s, ls.fn, S) = 0
           /\ ls \in s.listenersOnce[S]

\* Only listeners subscribed when the call started are invoked by it.
OnlySubscribed(s0, s) ==
  \A i \in DOMAIN s.calls :
    IF s.calls[i].name = "key"
    THEN /\ s.calls[i].scope \in DOMAIN s0.keyEmitters
         /\ \E ls \in Range(s0.keyEmitters[s.calls[i].scope]) :
              isUserListener(ls) /\ ls.fn = s.calls[i].listener
    ELSE \E ls \in Range(s0.localeListeners) : ls.fn = s.calls[i].listener

\* The set and use calls of the universe of SpecEvents satisfy P(before, after).
AfterEveryMutation(s0, P(_, _)) ==
  \A registry \in Registries \cap EventNamespaceInputs :
    \A key \in EventKeyInputs[registry] :
      /\ \A value \in EventValues, loc \in EventLocales :
           P(s0, setValue(s0, registry, key, value, loc))
      /\ \A externalFullKey \in EventExternalInputs :
           P(s0, use(s0, registry, key, externalFullKey))

\* C23: a one-shot listener stays subscribed, and marked one-shot, until a
\* call emits in its scope; that call invokes it exactly once and removes
\* it, so that no later emission reaches it (a call invokes only listeners
\* subscribed when it starts); for 'locale' the changeLocale that changes the
\* locale does the same.  Subscribing the same listener again without once
\* while it waits makes it persistent: it is invoked for every key changed in
\* its scope and stays subscribed.
C23_OneShotDelivery ==
  last.op = "idle" =>
    /\ \A S \in DOMAIN listenersOnce : listenersOnce[S] \subseteq Range(keyEmitters[S])
    /\ localeListenersOnce \subseteq Range(localeListeners)
    /\ AfterEveryMutation(State, LAMBDA s0, s : OneShotConsumed(s0, s) /\ OnlySubscribed(s0, s))
    /\ \A loc \in Locales :
         LET s == changeLocale(State, loc) IN
         /\ OnlySubscribed(State, s)
         /\ \A ls \in localeListenersOnce :
              IF s.locale # locale
              THEN /\ Invocations(s, ls.fn, LocaleScope) = 1
                   /\ ls \notin Range(s.localeListeners)
              ELSE /\ Invocations(s, ls.fn, LocaleScope) = 0
                   /\ ls \in s.localeListenersOnce
    /\ \A S \in DOMAIN listenersOnce :
         \A ls \in {l \in listenersOnce[S] : isUserListener(l)} :
           LET again == on(State, S, "key", ls, FALSE) IN
           /\ ls \notin again.listenersOnce[S]
           /\ again.keyEmitters = keyEmitters
           /\ AfterEveryMutation(again, LAMBDA s0, s :
                /\ ScopedDelivery(s0, s)
                /\ ls \in Range(s.keyEmitters[S]))

\* a.b.x, which a.x borrows, has been set while the listener f was subscribed
\* one-shot on the namespace a: two keys of a changed, f was invoked once and
\* is no longer subscribed.
C23_Witness ==
  /\ last.op = "set" /\ last.ret = TRUE
  /\ Len(last.events) = 2
  /\ \A i \in DOMAIN last.events : last.events[i].namespace = <<"a">>
  /\ Invocations(last, "f", <<"a">>) = 1
  /\ <<"a">> \in DOMAIN keyEmitters
  /\ UserListener("f") \notin Range(keyEmitters[<<"a">>])

\* C24: subscribing a listener invokes nobody, so a listener subscribed after
\* a set, use or changeLocale returned is not invoked for it; and a listener
\* that another listener subscribes while the notification of a call is
\* being delivered is not invoked by that call.
C24_NoReplay ==
  last.op = "idle" =>
    /\ \A S \in EventScopeInputs, name \in {"key", "locale"}, once \in BOOLEAN :
         LET s == on(State, S, name, UserListener("late"), once) IN
         s.calls = <<>> /\ s.events = <<>>
    /\ \A at \in EventScopeInputs, S \in EventScopeInputs :
         LET sub == SubscribingListener("sub", S, "key", UserListener("late"), FALSE)
         IN AfterEveryMutation(on(State, at, "key", sub, FALSE),
                               LAMBDA s0, s : Invocations(s, "late", S) = 0)
    /\ \A loc \in Locales :
         LET sub == SubscribingListener("sub", Null, "locale", UserListener("late"), FALSE)
             s == changeLocale(on(State, Null, "locale", sub, FALSE), loc)
         IN Invocations(s, "late", LocaleScope) = 0

\* C25: a getValue(namespace, key) that searches (the full key being neither
\* cached nor in UnresolvedSet) and finds no value returns the default, puts
\* the full key into UnresolvedSet, caches nothing, and reports
\* UnregisteredKey(namespace, key), once, exactly when the search reported no
\* CircularDependency; it reports no other code, and never both.
C25_UnresolvedReport ==
  \A in \in AllGetInputs :
    LET fullKey == concatNamespaceWithKey(in[1], in[2])
        s == getValue(State, in[1], in[2])
        unregistered == {i \in DOMAIN s.errors : s.errors[i] = UnregisteredKeyError(in[1], in[2])}
    IN (fullKey \notin DOMAIN cache /\ fullKey \notin errorKeys /\ s.ret = DefaultValue) =>
         /\ s.errorKeys = errorKeys \cup {fullKey}
         /\ s.cache = cache
         /\ Codes(s.errors) \in {{"UnregisteredKeyError"}, {"CircularDependencyError"}}
         /\ "CircularDependencyError" \notin Codes(s.errors) <=> Cardinality(unregistered) = 1
         /\ "CircularDependencyError" \in Codes(s.errors) <=> unregistered = {}
         /\ \A i \in DOMAIN s.errors :
              s.errors[i].code = "CircularDependencyError" =>
                s.errors[i] = CircularDependencyError(in[1], in[2])

\* A getValue has just found no value on a borrow cycle: it reported
\* CircularDependency and not UnregisteredKey, and the key is unresolved.
C25_Witness ==
  /\ last.op = "getValue"
  /\ last.ret = DefaultValue
  /\ Codes(last.errors) = {"CircularDependencyError"}
  /\ concatNamespaceWithKey(last.args[1], last.args[2]) \in errorKeys

\* C26: no two facade objects have the same namespace, and asking twice for
\* the facade of a namespace gives the same object both times, also when the
\* namespace is registered between the two calls.
C26_OneFacadePerPath ==
  /\ \A i, j \in DOMAIN facades : facades[i] = facades[j] => i = j
  /\ \A ns \in FacadeNamespaceInputs :
       LET first == getNamespace(State, ns)
           again == getNamespace(first, ns)
           later == getNamespace(register(first, ns), ns)
       IN /\ first.ret.namespace = ns
          /\ again.ret = first.ret
          /\ later.ret = first.ret

\* C27: getNamespace(name) called on the root or on the facade or registry
\* of any namespace returns a facade whose namespace is name, and
\* register(name) called on any of them registers, or has registered, the
\* namespace name.
C27_AddressedFromRoot ==
  \A this \in {n \in FacadeCallers : Instance(n)}, name \in FacadeNamespaceInputs :
    /\ i18nGetNamespace(State, this, name).ret.namespace = name
    /\ LET s == i18nRegister(State, this, name) IN
       s.ret # Null => s.ret = name /\ hasRegistry(s, name)

(***************************************************************************)
(* splitKeyByNamespace on strings of characters.  A string is given here   *)
(* character by character, so that String.split('.') and Array.join('.')   *)
(* are computed rather than read off the representation.                   *)
(***************************************************************************)
MaxChars == 5
Chars == {"a", "b", "."}
SplitInputs == UNION {[1..n -> Chars] : n \in 0..MaxChars}

\* The string with the characters chars.
RECURSIVE string(_)
string(chars) ==
  IF chars = <<>> THEN "" ELSE chars[1] \o string(Tail(chars))

\* String.split('.'): the segments between the dots, '' giving [''].
RECURSIVE split(_)
split(chars) ==
  IF \A i \in DOMAIN chars : chars[i] # "."
  THEN <<string(chars)>>
  ELSE LET i == CHOOSE i \in DOMAIN chars :
                  chars[i] = "." /\ \A j \in 1..(i - 1) : chars[j] # "."
       IN <<string(SubSeq(chars, 1, i - 1))>>
            \o split(SubSeq(chars, i + 1, Len(chars)))

\* Array.join('.').
RECURSIVE join(_)
join(path) ==
  IF path = <<>> THEN ""
  ELSE IF Len(path) = 1 THEN path[1]
  ELSE path[1] \o "." \o join(Tail(path))

\* splitKeyByNamespace(fullKey) as the code returns it: pairs of strings.
splitKeyByNamespaceOf(chars) ==
  LET name2Key == splitKeyByNamespace(split(chars)) IN
  [i \in DOMAIN name2Key |-> <<join(name2Key[i][1]), join(name2Key[i][2])>>]

SplitKeyByNamespace(K) ==
  /\ last.op = "idle"
  /\ \E fullKey \in K :
       Returns("splitKeyByNamespace", <<fullKey>>,
               [State EXCEPT !.ret = splitKeyByNamespaceOf(fullKey)])
  /\ UNCHANGED nops

NextSplit ==
  \/ SplitKeyByNamespace(SplitInputs)
  \/ Return

SpecSplit == Init /\ [][NextSplit]_vars

\* C28: splitKeyByNamespace of a valid full key with n segments returns n-1
\* pairs, the namespaces growing from pair to pair, and every pair's
\* namespace, a dot and its suffix spell the full key; a key of one segment
\* gives no pair.
C28_SplitPairs ==
  last.op = "splitKeyByNamespace" /\ testNamespacePath(split(last.args[1])) =>
    LET fullKey == string(last.args[1])
        n == Len(split(last.args[1]))
        name2Key == last.ret
    IN /\ Len(name2Key) = n - 1
       /\ \A i \in DOMAIN name2Key :
            /\ name2Key[i][1] \o "." \o name2Key[i][2] = fullKey
            /\ name2Key[i][1] # "" /\ name2Key[i][2] # ""
       /\ \A i, j \in DOMAIN name2Key :
            i < j => Len(name2Key[i][1]) < Len(name2Key[j][1])
       /\ n = 1 => name2Key = <<>>

C28_Witness ==
  /\ last.op = "splitKeyByNamespace"
  /\ testNamespacePath(split(last.args[1]))
  /\ Len(last.ret) = 2

\* The empty string and names with a leading dot, a trailing dot or an empty
\* segment; names of one segment.
MalformedNames ==
  {<<"">>, <<"", "a">>, <<"a", "">>, <<"a", "", "b">>, <<"", "">>}
SingleSegmentNames == {<<"a">>, <<"x">>}

\* The call that returned in s reported the one error e and nothing else
\* happened: no field of the state differs and no listener was notified.
RejectedWith(s, e) ==
  /\ s.errors = <<e>>
  /\ SameCore(s)
  /\ FiresNothing(s)

\* C29: register with an empty or malformed namespace reports NamespaceError
\* and returns null; set and use with an empty or malformed local key, and use
\* with a malformed or one-segment external full key, report KeyError and
\* return false; none of these calls changes the state or notifies a listener.
C29_SyntaxRejected ==
  last.op = "idle" =>
    /\ \A fullNamespace \in MalformedNames :
         LET s == register(State, fullNamespace) IN
         s.ret = Null /\ RejectedWith(s, NamespaceError(fullNamespace))
    /\ \A registry \in Registries, key \in MalformedNames :
         /\ \A value \in TreeValues, loc \in TreeLocaleInputs :
              LET s == setValue(State, registry, key, value, loc) IN
              s.ret = FALSE /\ RejectedWith(s, KeyError(registry, key))
         /\ \A externalFullKey \in AllExternalInputs \cup MalformedNames :
              LET s == use(State, registry, key, externalFullKey) IN
              s.ret = FALSE /\ RejectedWith(s, KeyError(registry, key))
    /\ \A registry \in Registries, key \in AllKeyInputs :
         \A externalFullKey \in MalformedNames \cup SingleSegmentNames :
           testNamespacePath(key) =>
             LET s == use(State, registry, key, externalFullKey) IN
             s.ret = FALSE /\ RejectedWith(s, KeyError(Null, externalFullKey))

C29_Witness ==
  /\ last.op = "use"
  /\ testNamespacePath(last.args[2])
  /\ last.args[3] \in SingleSegmentNames
  /\ last.ret = FALSE
  /\ Codes(last.errors) = {"KeyError"}
  /\ keyValue # <<>>

(***************************************************************************)
(* The constructor under every configuration of OptionInputs, followed by  *)
(* changeLocale calls.                                                     *)
(***************************************************************************)
OptionInputs ==
  [locale : {"ru", "en"}, defaultLocale : {"", "en", "fr"},
   locales : {{}, {"en"}, {"fr"}, {"ru", "en"}}]
OptionLocaleInputs == {"ru", "en", "fr", "xx"}

InitOptions ==
  \E options \in OptionInputs :
    LET config == parseOptions(options) IN
    /\ namespaces = <<>>
    /\ keyValue = <<>>
    /\ externalListeners = <<>>
    /\ keyEmitters = <<>>
    /\ listenersOnce = <<>>
    /\ localeListeners = <<>>
    /\ localeListenersOnce = {}
    /\ cache = <<>>
    /\ errorKeys = {}
    /\ locale = config.locale
    /\ facades = <<Null>>
    /\ defaultLocale = config.defaultLocale
    /\ locales = config.locales
    /\ last = Idle
    /\ nops = 0

NextOptions ==
  \/ ChangeLocale(OptionLocaleInputs)
  \/ Return

SpecOptions == InitOptions /\ [][NextOptions]_vars

\* C30: the current locale and the default locale are always accepted by
\* isSupportedLocale; a configuration accepts its locale and its default
\* locale whether or not they are listed, and every locale when no locale is
\* listed; changeLocale leaves the locale as it is when the asked one is
\* rejected and otherwise makes the asked one current.
C30_LocaleAccepted ==
  /\ isSupportedLocale(State, locale)
  /\ isSupportedLocale(State, defaultLocale)
  /\ \A options \in OptionInputs :
       LET config == parseOptions(options) IN
       /\ isSupportedLocale(config, options.locale)
       /\ isSupportedLocale(config, config.defaultLocale)
       /\ options.defaultLocale # "" => config.defaultLocale = options.defaultLocale
       /\ options.locales = {} =>
            \A loc \in OptionLocaleInputs : isSupportedLocale(config, loc)
  /\ \A loc \in OptionLocaleInputs :
       LET s == changeLocale(State, loc) IN
       /\ s.ret = s.locale
       /\ s.locale = IF isSupportedLocale(State, loc) THEN loc ELSE locale
  /\ last.op = "changeLocale" => last.ret = locale

C30_Witness ==
  /\ last.op = "changeLocale"
  /\ ~isSupportedLocale(State, last.args[1])
  /\ locale # defaultLocale
  /\ Codes(last.errors) = {"UnregisteredLocaleError"}
  /\ \E options \in OptionInputs :
       /\ parseOptions(options).locales = locales
       /\ defaultLocale \notin options.locales

\* What the registry of candidate pair = <<namespace, suffix>> yields for its
\* suffix when asked on its own.
YieldsAlone(s, pair) ==
  registryGetValue(s, pair[1], s.locale, pair[2],
                   VisitedI18n(Null, pair[1] \o pair[2], [n \in {pair[1]} |-> <<pair[2]>>]))

CanYield(s, name2Key) ==
  {i \in DOMAIN name2Key :
     hasRegistry(s, name2Key[i][1]) /\ YieldsAlone(s, name2Key[i]).found}

First(S) == CHOOSE i \in S : \A j \in S : i <= j

\* C31: when registries at several ancestor namespaces of a full key yield a
\* value for their suffix, findValue returns the value of the one with the
\* shortest namespace, and returns the same result as a search that stops at
\* that candidate; getValue of a key that is neither cached nor recorded as
\* unresolved returns that value.
C31_ShortestFirst ==
  last.op = "idle" =>
    \A g \in AllGetInputs :
      LET fullKey == concatNamespaceWithKey(g[1], g[2])
          name2Key == splitKeyByNamespace(fullKey)
          ctx == VisitedI18n(g[1], g[2], <<>>)
      IN CanYield(State, name2Key) # {} =>
           LET i == First(CanYield(State, name2Key))
               alone == YieldsAlone(State, name2Key[i])
               value == findValue(State, locale, fullKey, ctx)
           IN /\ value.found
              /\ value.value = alone.value
              /\ value.registry = alone.registry
              /\ value = findValueFrom(State, locale, SubSeq(name2Key, 1, i), 1, ctx)
              /\ fullKey \notin DOMAIN cache /\ fullKey \notin errorKeys =>
                   getValue(State, g[1], g[2]).ret = alone.value

C31_Witness ==
  /\ last.op = "getValue"
  /\ LET name2Key == splitKeyByNamespace(concatNamespaceWithKey(last.args[1], last.args[2]))
         Y == CanYield(State, name2Key)
     IN /\ Cardinality(Y) >= 2
        /\ \A j \in Y \ {First(Y)} :
             YieldsAlone(State, name2Key[j]).value # YieldsAlone(State, name2Key[First(Y)]).value
        /\ last.ret = YieldsAlone(State, name2Key[First(Y)]).value

(***************************************************************************)
(* Borrow cycles between the nested registries 'a' and 'a.b'.  The         *)
(* behaviours start after                                                  *)
(*   a = register('a'); register('a.b'); a.set('b.y', 'v1', 'ru');         *)
(*   a.use('b.x', 'a.b.y')                                                 *)
(* the state being computed by these calls.                                *)
(***************************************************************************)
Constructed(config) ==
  [namespaces |-> <<>>, keyValue |-> <<>>, externalListeners |-> <<>>,
   keyEmitters |-> <<>>, listenersOnce |-> <<>>, localeListeners |-> <<>>,
   localeListenersOnce |-> {}, cache |-> <<>>, errorKeys |-> {},
   locale |-> config.locale, facades |-> <<Null>>,
   defaultLocale |-> config.defaultLocale, locales |-> config.locales,
   errors |-> <<>>, events |-> <<>>, calls |-> <<>>, reads |-> <<>>,
   overflow |-> FALSE, ret |-> Null]

InitCycle ==
  \E s1 \in {register(Constructed(parseOptions(Options)), <<"a">>)} :
    \E s2 \in {register(s1, <<"a", "b">>)} :
      \E s3 \in {setValue(s2, <<"a">>, <<"b", "y">>, "v1", "ru")} :
        \E s4 \in {use(s3, <<"a">>, <<"b", "x">>, <<"a", "b", "y">>)} :
          /\ namespaces = s4.namespaces
          /\ keyValue = s4.keyValue
          /\ externalListeners = s4.externalListeners
          /\ keyEmitters = s4.keyEmitters
          /\ listenersOnce = s4.listenersOnce
          /\ localeListeners = s4.localeListeners
          /\ localeListenersOnce = s4.localeListenersOnce
          /\ cache = s4.cache
          /\ errorKeys = s4.errorKeys
          /\ locale = s4.locale
          /\ facades = s4.facades
          /\ defaultLocale = s4.defaultLocale
          /\ locales = s4.locales
          /\ last = Idle
          /\ nops = 0

CycleKeyInputs ==
  [registry \in {<<"a">>, <<"a", "b">>} |->
     IF registry = <<"a">> THEN {<<"b", "x">>, <<"b", "y">>}
                           ELSE {<<"x">>, <<"y">>}]
CycleExternalInputs == {<<"a", "b", "x">>, <<"a", "b", "y">>, <<"a", "q">>}
CycleGetInputs == {<<Null, <<"a", "b", "x">>>>, <<Null, <<"a", "b", "y">>>>,
                   <<<<"a", "b">>, <<"y">>>>}
CycleValues == {"v1", "v2"}

NextCycle ==
  \/ Set(CycleKeyInputs, CycleValues, TreeLocales)
  \/ Use(CycleKeyInputs, CycleExternalInputs)
  \/ GetValue(CycleGetInputs)
  \/ Return

SpecCycle == InitCycle /\ [][NextCycle]_vars

\* C32: a getValue whose search skipped a visited candidate, and so reported
\* CircularDependency, and still found a value returns that value and stores
\* it in the cache; the key is not recorded as unresolved and no
\* UnregisteredKey is reported.  The value is the one of the first candidate
\* of the key that yields one.
C32_CycleNotFatal ==
  last.op = "idle" =>
    \A g \in CycleGetInputs \cup AllGetInputs :
      LET fullKey == concatNamespaceWithKey(g[1], g[2])
          name2Key == splitKeyByNamespace(fullKey)
          value == findValue(State, locale, fullKey, VisitedI18n(g[1], g[2], <<>>))
          s == getValue(State, g[1], g[2])
      IN (fullKey \notin DOMAIN cache /\ fullKey \notin errorKeys /\ value.ctx.error) =>
           /\ "CircularDependencyError" \in Codes(s.errors)
           /\ "UnregisteredKeyError" \notin Codes(s.errors)
           /\ value.found <=> CanYield(State, name2Key) # {}
           /\ value.found =>
                /\ s.ret = value.value
                /\ s.ret = YieldsAlone(State, name2Key[First(CanYield(State, name2Key))]).value
                /\ fullKey \in DOMAIN s.cache /\ s.cache[fullKey] = s.ret
                /\ s.errorKeys = errorKeys
           /\ ~value.found => s.ret = DefaultValue /\ s.cache = cache

C32_Witness ==
  /\ last.op = "getValue"
  /\ "CircularDependencyError" \in Codes(last.errors)
  /\ last.ret # DefaultValue
  /\ LET fullKey == concatNamespaceWithKey(last.args[1], last.args[2]) IN
     fullKey \in DOMAIN cache /\ cache[fullKey] = last.ret /\ fullKey \notin errorKeys

\* The (registry, suffix) pairs a visit context has resolved, and the pairs a
\* search of fullKey can meet in state s: the candidates of fullKey and of
\* every borrow target.
VisitedPairs(ctx) ==
  UNION {{<<ns, ctx.visited[ns][i]>> : i \in DOMAIN ctx.visited[ns]} : ns \in DOMAIN ctx.visited}

CandidatesOf(s, fullKey) ==
  {p \in Range(splitKeyByNamespace(fullKey)) : hasRegistry(s, p[1])}

PairsOf(s, fullKey) ==
  CandidatesOf(s, fullKey) \cup
  UNION {CandidatesOf(s, s.keyValue[rk].k) :
           rk \in {q \in DOMAIN s.keyValue : s.keyValue[q].t = <<>>}}

ResolvedOnce(ctx) ==
  \A ns \in DOMAIN ctx.visited :
    \A i, j \in DOMAIN ctx.visited[ns] :
      ctx.visited[ns][i] = ctx.visited[ns][j] => i = j

\* The borrow entry rk lies on a borrow cycle.
OnCycle(rk) ==
  /\ IsBorrow(rk)
  /\ Reaches(keyValue[rk].k, FullKeyOf(rk), Cardinality(DOMAIN keyValue))

\* C33: every search returns, having resolved each (registry, suffix) pair at
\* most once and only pairs that are candidates of the key searched or of a
\* borrow target, so a search makes no more resolutions than there are such
\* pairs; this holds for the search of a getValue and for the simulation of a
\* use, with and without borrow cycles in the key tables.
C33_SearchTerminates ==
  last.op = "idle" =>
    /\ \A g \in CycleGetInputs \cup AllGetInputs :
         LET fullKey == concatNamespaceWithKey(g[1], g[2])
             value == findValue(State, locale, fullKey, VisitedI18n(g[1], g[2], <<>>))
         IN /\ ResolvedOnce(value.ctx)
            /\ VisitedPairs(value.ctx) \subseteq PairsOf(State, fullKey)
            /\ Len(value.ctx.errors) <= Cardinality(PairsOf(State, fullKey))
    /\ \A registry \in Registries :
         \A key \in CycleKeyInputs[<<"a">>] \cup CycleKeyInputs[<<"a", "b">>] \cup AllKeyInputs,
            externalFullKey \in CycleExternalInputs \cup AllExternalInputs :
           LET value == findValue(State, locale, externalFullKey,
                                  VisitedI18n(Null, key, [n \in {registry} |-> <<key>>]))
           IN /\ ResolvedOnce(value.ctx)
              /\ VisitedPairs(value.ctx) \subseteq
                   PairsOf(State, externalFullKey) \cup {<<registry, key>>}
              /\ use(State, registry, key, externalFullKey).ret \in BOOLEAN

C33_Witness ==
  /\ last.op = "getValue"
  /\ "CircularDependencyError" \in Codes(last.errors)
  /\ \E rk \in DOMAIN keyValue : OnCycle(rk)

\* C34: every set and every use returns: the notifications a committed call
\* sets off through the borrow listeners come to an end.
C34_PropagationEnds == ~last.overflow

Count(list, x) == Cardinality({i \in DOMAIN list : list[i] = x})

\* The borrow listeners subscribed in state s, each with its scope.
BorrowSubscriptions(s) ==
  UNION {{<<scope, s.keyEmitters[scope][i]>> : i \in
            {j \in DOMAIN s.keyEmitters[scope] : ~isUserListener(s.keyEmitters[scope][j])}} :
         scope \in DOMAIN s.keyEmitters}

\* The subscription a Borrow entry of key rk with target k must hold.
SubscriptionOf(rk, k) ==
  [ns |-> SubSeq(k, 1, 1), ls |-> BorrowListener(rk[1], rk[2], SubSeq(k, 2, Len(k)))]

SubscriptionsMatch(s) ==
  /\ \A rk \in DOMAIN s.keyValue :
       s.keyValue[rk].t = <<>> =>
         LET sub == SubscriptionOf(rk, s.keyValue[rk].k) IN
         /\ rk \in DOMAIN s.externalListeners
         /\ s.externalListeners[rk] = sub
         /\ sub.ns \in DOMAIN s.keyEmitters
         /\ Count(s.keyEmitters[sub.ns], sub.ls) = 1
         /\ sub.ls \notin s.listenersOnce[sub.ns]
  /\ \A rk \in DOMAIN s.externalListeners :
       rk \in DOMAIN s.keyValue /\ s.keyValue[rk].t = <<>>
  /\ \A p \in BorrowSubscriptions(s) :
       LET rk == <<p[2].registry, p[2].key>> IN
       /\ rk \in DOMAIN s.keyValue /\ s.keyValue[rk].t = <<>>
       /\ SubscriptionOf(rk, s.keyValue[rk].k) = [ns |-> p[1], ls |-> p[2]]

Notified(s, rk) ==
  \E i \in DOMAIN s.events : s.events[i].namespace = rk[1] /\ s.events[i].key = rk[2]

\* C35: every Borrow entry has exactly one subscription, on the first segment
\* of its target and filtered to the rest of it, recorded in
\* _externalListeners, and no other borrow listener is subscribed anywhere;
\* after a borrowed key is overwritten by set, or linked by use to another
\* target, the subscriptions match the new entries, and once it is overwritten
\* a set of its former target no longer notifies it.
C35_OneSubscription ==
  /\ SubscriptionsMatch(State)
  /\ last.op = "idle" =>
       \A rk \in DOMAIN keyValue :
         IsBorrow(rk) =>
           /\ \A externalFullKey \in CycleExternalInputs \cup AllExternalInputs :
                LET s == use(State, rk[1], rk[2], externalFullKey) IN
                /\ SubscriptionsMatch(s)
                /\ s.ret /\ externalFullKey # keyValue[rk].k =>
                     <<SubscriptionOf(rk, keyValue[rk].k).ns,
                       SubscriptionOf(rk, keyValue[rk].k).ls>> \notin BorrowSubscriptions(s)
           /\ \A value \in Values, loc \in Locales :
                LET s1 == setValue(State, rk[1], rk[2], value, loc) IN
                /\ SubscriptionsMatch(s1)
                /\ s1.ret =>
                     /\ rk \notin DOMAIN s1.externalListeners
                     /\ \A p \in CandidatesOf(s1, keyValue[rk].k) :
                          LET s2 == setValue([s1 EXCEPT !.events = <<>>],
                                             p[1], p[2], value, loc)
                          IN s2.ret /\ ~s2.overflow => ~Notified(s2, rk)

\* A use has just linked the only borrowed key to a target in another
\* namespace than the one whose Emitter it has left.
C35_Witness ==
  /\ last.op = "use" /\ last.ret = TRUE
  /\ Cardinality(DOMAIN externalListeners) = 1
  /\ IsBorrow(<<last.args[1], last.args[2]>>)
  /\ \E scope \in DOMAIN keyEmitters :
       keyEmitters[scope] = <<>> /\ scope # SubSeq(last.args[3], 1, 1)

\* C36: a use(localKey, externalFullKey) that succeeds on a key holding
\* Direct values leaves the key with a Borrow entry and none of the values;
\* getValue of the key then returns what externalFullKey resolves to, the
\* default when it resolves to nothing.
C36_UseDiscardsValues ==
  last.op = "idle" =>
    \A rk \in DOMAIN keyValue :
      IsDirect(rk) =>
        \A externalFullKey \in CycleExternalInputs \cup AllExternalInputs :
          LET s == use(State, rk[1], rk[2], externalFullKey) IN
          s.ret /\ ~s.overflow =>
            /\ s.keyValue[rk] = BorrowEntry(externalFullKey)
            /\ FullKeyOf(rk) \notin DOMAIN s.cache
            /\ getValue(s, rk[1], rk[2]).ret = FreshIn(s, externalFullKey)
            /\ getValue(s, Null, FullKeyOf(rk)).ret = FreshIn(s, externalFullKey)

\* C37: no Borrow entry lies on a borrow cycle: following the target of a
\* Borrow entry to every entry whose registry and key make up the target's
\* full key, and on from there, never leads back to the entry.
C37_BorrowGraphAcyclic ==
  \A rk \in DOMAIN keyValue : ~OnCycle(rk)

\* C38: a use(localKey, externalFullKey) reports CircularDependency only when
\* borrow links lead from externalFullKey to the full key of localKey, so
\* that committing it would close a cycle through the key, and a getValue
\* reports CircularDependency only when borrow links lead from the requested
\* key to a Borrow entry that lies on a cycle.
C38_NoFalseCycle ==
  last.op = "idle" =>
    /\ \A registry \in Registries :
         \A key \in CycleKeyInputs[<<"a">>] \cup CycleKeyInputs[<<"a", "b">>] \cup AllKeyInputs,
            externalFullKey \in CycleExternalInputs \cup AllExternalInputs :
           "CircularDependencyError" \in Codes(use(State, registry, key, externalFullKey).errors) =>
             Reaches(externalFullKey, concatNamespaceWithKey(registry, key),
                     Cardinality(DOMAIN keyValue))
    /\ \A g \in CycleGetInputs \cup AllGetInputs :
         "CircularDependencyError" \in Codes(getValue(State, g[1], g[2]).errors) =>
           \E rk \in DOMAIN keyValue :
             /\ OnCycle(rk)
             /\ Reaches(concatNamespaceWithKey(g[1], g[2]), FullKeyOf(rk),
                        Cardinality(DOMAIN keyValue))

\* C39: no full key is both cached and recorded as unresolved.
C39_CacheUnresolvedDisjoint ==
  DOMAIN cache \cap errorKeys = {}

\* A getValue has just recorded a key as unresolved while other keys are
\* cached.
C39_Witness ==
  /\ last.op = "getValue"
  /\ last.ret = DefaultValue
  /\ last.errors # <<>>
  /\ concatNamespaceWithKey(last.args[1], last.args[2]) \in errorKeys
  /\ cache # <<>>

====
